---- MODULE Spec2Model ----
(***************************************************************************)
(* A model of the mezzenger transports.                                    *)
(*                                                                         *)
(* Part I   the in-memory carrier: the shared receive state of             *)
(*          mezzenger-common (rc.rs), the loopback transport built on it   *)
(*          (mezzenger-loopback/src/rc.rs) and the dummy transport with    *)
(*          its own send future (mezzenger-dummy/src/sync.rs).             *)
(* Part II  the Web Worker carrier (mezzenger-webworker/src/lib.rs): two   *)
(*          transports joined by postMessage, after their construction.    *)
(* Part III the TCP carrier (mezzenger-tcp/src/lib.rs): the length-prefixed  *)
(*          framer at the two ends of one connection.                      *)
(* Part IV  the decorators of mezzenger-utils: Numbered (numbered.rs) and    *)
(*          LatestOnly (latest_only.rs) around an unordered transport.     *)
(* Part V   the WebSocket carrier (mezzenger-websocket): the transports    *)
(*          over tungstenite and over warp, and the warp receiver.         *)
(* Part VI  the facades of mezzenger/src/lib.rs: Stream over a receiver    *)
(*          and Sink over a sender.                                        *)
(* Part VII the UDP carrier (mezzenger-udp/src/lib.rs): the sending side   *)
(*          of one transport, with send_to and the Sink operations.        *)
(* Part VIII the construction of the two Web Worker transports: the open   *)
(*          handshake of Transport::new_inner.                             *)
(* Part IX  the channel carrier (mezzenger-channel/src/lib.rs): the pair   *)
(*          of transports over two unbounded channels.                     *)
(* Part X   the in-memory carrier behind a mutex (mezzenger-common         *)
(*          sync.rs, mezzenger-loopback and mezzenger-dummy sync.rs),      *)
(*          with its operations running on several threads.                *)
(* Part XI  the Stream facade of mezzenger/src/lib.rs over the in-memory   *)
(*          carrier of Part I.                                             *)
(* Part XII the calls on the TCP framer of Part III, with what each of    *)
(*          them returns.                                                  *)
(* Part XIII the locks of the in-memory carrier behind a mutex: the state  *)
(*          lock and the locks of the waker cells, as the threads of       *)
(*          Part X ask for them, get them and release them.                *)
(***************************************************************************)
EXTENDS Integers, Sequences, FiniteSets, TLC

\* ------------------------------------------------------------------------
\* Bounds of the model
\* ------------------------------------------------------------------------

\* receive futures that may be created on one carrier
NumReceivers == 3

\* distinct message payloads a send may carry
NumMessages == 2

\* sends a carrier accepts before the model stops sending
MaxSends == 2

\* entries the waker registry may hold before the model stops parking
MaxWakers == 4

Receivers == 1..NumReceivers

Messages == 1..NumMessages

\* the two in-memory transports of the repository
Carriers == {"loopback", "dummy"}

VARIABLES
    carrier,      \* which transport this is: its send differs, the rest is shared
    queue,        \* State.queue: VecDeque, index 1 is the front
    wakers,       \* State.wakers: VecDeque of weak waker cells, index 1 is the front
    closed,       \* State.closed
    rcv,          \* the Receive futures: phase, terminated, waker cell, woken, last poll result
    notified,     \* receivers whose task waker has fired and that were not polled since
    send_result,  \* what the last send future returned
    sent,         \* history: the messages send has accepted, in order
    received      \* history: the messages receive has returned, in completion order

mem_vars == <<carrier, queue, wakers, closed, rcv, notified, send_result, sent, received>>

VARIABLES
    wk_state,     \* per side, the worker carrier's State: incoming, waker, closed
    wk_chan,      \* per side, the postMessage events on their way to it, oldest first
    wk_posted,    \* per side, how many user messages it has posted
    wk_ret        \* the last Sink/Stream call: its side, the call, what it returned

wk_vars == <<wk_state, wk_chan, wk_posted, wk_ret>>

VARIABLES
    tcp,          \* per end, the Transport: send_buffer, receive_state, terminated,
                  \* max_message_size
    tcp_wire,     \* per end, the bytes its peer has written that it has not read yet
    tcp_shut,     \* per end, whether it has shut the writing half of its socket down
    tcp_reset,    \* whether the connection has been reset
    tcp_log,      \* per end, its start_send calls on an open transport: what the
                  \* codec wrote and what the call returned
    tcp_got       \* per end, the items its poll_next has yielded

tcp_vars == <<tcp, tcp_wire, tcp_shut, tcp_reset, tcp_log, tcp_got>>

VARIABLES
    nm_current,      \* Numbered::current_number
    nm_log,          \* the wrappers of the messages Numbered has sent, in send order
    nm_failed,       \* how many messages had been sent when an inner start_send failed
    nl_flight,       \* the wrappers on their way to the inner stream of LatestOnly
    lo_last_number,  \* LatestOnly::last_number
    lo_inner_done,   \* the inner stream of LatestOnly has ended
    lo_emitted,      \* the items LatestOnly::poll_next has emitted
    lo_poll          \* the last LatestOnly::poll_next: last_number before it, what
                     \* the inner stream yielded and how it stopped, what it returned

ut_vars == <<nm_current, nm_log, nm_failed, nl_flight, lo_last_number, lo_inner_done,
             lo_emitted, lo_poll>>

VARIABLES
    ws_impl,         \* which of the WebSocket wrappers this is
    ws_arrived,      \* what the inner stream has to hand out, in arrival order
    ws_read,         \* how many of them poll_next has taken from the inner stream
    ws_terminated,   \* Transport::terminated
    ws_waker,        \* the inner stream holds the waker of the receiving task
    ws_notified,     \* the receiving task is scheduled to poll
    ws_yielded,      \* the items poll_next has returned, with the frame of each
    ws_last,         \* the last poll_next: what the inner stream gave, the result
    ws_ending,       \* poll_next has taken a close frame or a closing error
    ws_send          \* the last start_send: whether it came after such a frame,
                     \* what the inner sink answered, the result

ws_vars == <<ws_impl, ws_arrived, ws_read, ws_terminated, ws_waker, ws_notified,
             ws_yielded, ws_last, ws_ending, ws_send>>

VARIABLES
    st_queue,        \* the results the receiver under the Stream has queued
    st_closed,       \* that receiver is closed
    st_waker,        \* that receiver holds the waker of the consuming task
    st_notified,     \* the consuming task is scheduled to poll the Stream
    st_terminated,   \* Stream::terminated
    st_pushed,       \* every result the receiver was given, in order
    st_out,          \* the messages Stream::poll_next has yielded
    st_last          \* the last Stream::poll_next: what receive returned, the result

st_vars == <<st_queue, st_closed, st_waker, st_notified, st_terminated,
             st_pushed, st_out, st_last>>

VARIABLES
    sk_buffer,       \* Sink::buffer
    sk_given,        \* every item given to Sink::start_send, in order
    sk_done,         \* the items whose send has completed, in completion order
    sk_last          \* the last Sink::poll_flush: the buffer after it, what the
                     \* send future returned, the result

sk_vars == <<sk_buffer, sk_given, sk_done, sk_last>>

VARIABLES
    ud_build,        \* debug (overflow checks) or release (wrapping arithmetic)
    ud_open,         \* Transport::udp_socket is Some
    ud_queue,        \* Transport::send_queue
    ud_buffer,       \* Transport::send_buffer
    ud_to_send,      \* Transport::messages_to_send
    ud_encoded,      \* the call whose message messages_to_send counts, 0 if none
    ud_log,          \* the start_send and send_to calls, in call order
    ud_wire,         \* the datagrams handed to the socket, in order
    ud_errors,       \* the calls whose message ended in a reported error
    ud_last,         \* the last operation, its result, whether it left the
                     \* transport with nothing queued and nothing encoded
    ud_panicked      \* an operation has panicked

ud_vars == <<ud_build, ud_open, ud_queue, ud_buffer, ud_to_send, ud_encoded,
             ud_log, ud_wire, ud_errors, ud_last, ud_panicked>>

VARIABLES
    hs_phase,        \* where the creation future of each side stands
    hs_listening,    \* the "message" listener of each side is registered
    hs_chan,         \* the events posted to each side and not yet dispatched
    hs_notifier,     \* open_notifier of each side: whether the Rc is alive, and
                     \* how many items the queue holds
    hs_incoming,     \* State::incoming of each side
    hs_opens,        \* how many Open sentinels each side has been handed
    hs_early,        \* a Message was queued on a side that had seen no Open
    hs_posted,       \* how many messages the user of each side has sent
    hs_panicked      \* a listener has reached unreachable!()

hs_vars == <<hs_phase, hs_listening, hs_chan, hs_notifier, hs_incoming, hs_opens,
             hs_early, hs_posted, hs_panicked>>

VARIABLES
    ch_alive,        \* the transport of each side has not been dropped
    ch_sender,       \* the sender of each side is connected
    ch_queue,        \* the messages in the channel that ends in each side's receiver
    ch_fused,        \* the Fuse around each side's receiver has seen the end
    ch_sent,         \* the messages each side's start_send has accepted
    ch_got,          \* the messages each side's poll_next has yielded
    ch_last          \* the last call: its side, the call, what it returned

ch_vars == <<ch_alive, ch_sender, ch_queue, ch_fused, ch_sent, ch_got, ch_last>>

VARIABLES
    mx_carrier,      \* which transport this is: the loopback one or the dummy one
    mx_queue,        \* State.queue, index 1 is the front
    mx_wakers,       \* State.wakers, index 1 is the front
    mx_closed,       \* State.closed
    mx_rcv,          \* the Receive futures, with what the drop of each has read
    mx_notified,     \* receivers whose task waker has fired and that were not polled since
    mx_lock,         \* the wake_next that holds the state lock, and the cell it upgraded
    mx_send,         \* where the sending thread stands, and what its last send returned
    mx_close,        \* where the closing thread stands
    mx_sent,         \* how many messages were pushed
    mx_got           \* history: what the receive futures returned (0 stands for Closed)

mx_vars == <<mx_carrier, mx_queue, mx_wakers, mx_closed, mx_rcv, mx_notified, mx_lock,
             mx_send, mx_close, mx_sent, mx_got>>

VARIABLES
    fc_terminated,   \* Stream.terminated
    fc_last,         \* what the last poll_next of the stream returned
    fc_made          \* the receive futures the polls of the stream have created

fc_vars == <<fc_terminated, fc_last, fc_made>>

VARIABLES
    tl_last,         \* the last call on a framer: its end, the call, what it returned
    tl_closed        \* per end, whether a poll_flush or poll_close of it returned Closed

tl_vars == <<tl_last, tl_closed>>

VARIABLES
    lk_carrier,      \* which in-memory transport the threads share
    lk_pc,           \* per thread, where it is in its operation
    lk_state_owner,  \* the thread that holds the state lock, 0 if none does
    lk_cell_owner,   \* per waker cell, the thread that holds its lock, 0 if none
    lk_target,       \* per thread, the cell its wake_next has upgraded, 0 if none
    lk_rcv,          \* the receive futures
    lk_wakers,       \* State::wakers
    lk_queue,        \* the number of items in State::queue
    lk_closed,       \* State::closed
    lk_sent          \* the sends accepted so far

lk_vars == <<lk_carrier, lk_pc, lk_state_owner, lk_cell_owner, lk_target, lk_rcv,
             lk_wakers, lk_queue, lk_closed, lk_sent>>

vars == <<mem_vars, wk_vars, tcp_vars, ut_vars, ws_vars, st_vars, sk_vars, ud_vars,
          hs_vars, ch_vars, mx_vars, fc_vars, tl_vars, lk_vars>>

\* what an operation of one carrier leaves alone: the other carriers
mem_rest == <<wk_vars, tcp_vars, ut_vars, ws_vars, st_vars, sk_vars, ud_vars, hs_vars, ch_vars, mx_vars, fc_vars, tl_vars, lk_vars>>

wk_rest == <<mem_vars, tcp_vars, ut_vars, ws_vars, st_vars, sk_vars, ud_vars, hs_vars, ch_vars, mx_vars, fc_vars, tl_vars, lk_vars>>

tcp_rest == <<mem_vars, wk_vars, ut_vars, ws_vars, st_vars, sk_vars, ud_vars, hs_vars, ch_vars, mx_vars, fc_vars, tl_vars, lk_vars>>

ut_rest == <<mem_vars, wk_vars, tcp_vars, ws_vars, st_vars, sk_vars, ud_vars, hs_vars, ch_vars, mx_vars, fc_vars, tl_vars, lk_vars>>

ws_rest == <<mem_vars, wk_vars, tcp_vars, ut_vars, st_vars, sk_vars, ud_vars, hs_vars, ch_vars, mx_vars, fc_vars, tl_vars, lk_vars>>

st_rest == <<mem_vars, wk_vars, tcp_vars, ut_vars, ws_vars, sk_vars, ud_vars, hs_vars, ch_vars, mx_vars, fc_vars, tl_vars, lk_vars>>

sk_rest == <<mem_vars, wk_vars, tcp_vars, ut_vars, ws_vars, st_vars, ud_vars, hs_vars, ch_vars, mx_vars, fc_vars, tl_vars, lk_vars>>

ud_rest == <<mem_vars, wk_vars, tcp_vars, ut_vars, ws_vars, st_vars, sk_vars, hs_vars, ch_vars, mx_vars, fc_vars, tl_vars, lk_vars>>

hs_rest == <<mem_vars, wk_vars, tcp_vars, ut_vars, ws_vars, st_vars, sk_vars, ud_vars, ch_vars, mx_vars, fc_vars, tl_vars, lk_vars>>

ch_rest == <<mem_vars, wk_vars, tcp_vars, ut_vars, ws_vars, st_vars, sk_vars, ud_vars, hs_vars, mx_vars, fc_vars, tl_vars, lk_vars>>

mx_rest == <<mem_vars, wk_vars, tcp_vars, ut_vars, ws_vars, st_vars, sk_vars, ud_vars, hs_vars, ch_vars, fc_vars, tl_vars, lk_vars>>

\* the facade of Part XI works on the carrier of Part I
fc_rest == <<wk_vars, tcp_vars, ut_vars, ws_vars, st_vars, sk_vars, ud_vars, hs_vars, ch_vars, mx_vars, tl_vars, lk_vars>>

\* the calls of Part XII work on the framers of Part III
tl_rest == <<mem_vars, wk_vars, ut_vars, ws_vars, st_vars, sk_vars, ud_vars, hs_vars, ch_vars, mx_vars, fc_vars, lk_vars>>

lk_rest == <<mem_vars, wk_vars, tcp_vars, ut_vars, ws_vars, st_vars, sk_vars, ud_vars, hs_vars, ch_vars, mx_vars, fc_vars, tl_vars>>

\* ------------------------------------------------------------------------
\* State: queue and waker registry
\* ------------------------------------------------------------------------

\* State::new
State_new == [queue |-> <<>>, wakers |-> <<>>, closed |-> FALSE]

\* Receive::new
Receive_new == [phase |-> "live", terminated |-> FALSE, cell |-> FALSE,
                woken |-> FALSE, out |-> "None"]

NoReceive == [phase |-> "idle", terminated |-> FALSE, cell |-> FALSE,
              woken |-> FALSE, out |-> "None"]

message_lifo(q, m) == Append(q, m)

\* State::message: queue.push_front(Ok(message))
message(q, m) == <<m>> \o q

\* queue.pop_back(): the item
pop_back_item(q) == q[Len(q)]

pop_back_keep(q) == q

\* queue.pop_back(): what is left
pop_back_rest(q) == SubSeq(q, 1, Len(q) - 1)

\* wakers.push_front(Rc::downgrade(..))
register(ws, r) == <<r>> \o ws

\* Weak::upgrade: the cell is alive while its future holds the Rc
upgrade(cells, r) == cells[r]

\* the waker cells alive now
Cells == [r \in Receivers |-> rcv[r].cell]

\* the waker cells alive once the future r has let go of its own
CellsWithout(r) == [x \in Receivers |-> x # r /\ rcv[x].cell]

RECURSIVE wake_next_target(_, _)
\* State::wake_next: the receiver it wakes (0: the registry ran out)
wake_next_target(ws, cells) ==
    IF ws = <<>> THEN 0
    ELSE IF upgrade(cells, Head(ws)) THEN Head(ws)
    ELSE wake_next_target(Tail(ws), cells)

RECURSIVE wake_next_wakers(_, _)
\* State::wake_next: the registry it leaves (every popped entry is gone)
wake_next_wakers(ws, cells) ==
    IF ws = <<>> THEN <<>>
    ELSE IF upgrade(cells, Head(ws)) THEN Tail(ws)
    ELSE wake_next_wakers(Tail(ws), cells)

\* waker.woken = true on the woken cell
mark_woken(rs, w) ==
    IF w = 0 THEN rs ELSE [rs EXCEPT ![w].woken = TRUE]

\* waker.waker.wake_by_ref()
wake_by_ref(ns, w) == IF w = 0 THEN ns ELSE ns \cup {w}

send_unchecked(cl) == FALSE

\* Sender::send: transport.is_closed()
send_rejected(cl) == cl

send_never_wakes(c) == FALSE

\* whether this carrier's send calls wake_next after the push
send_wakes(c) == c = "dummy"

\* ------------------------------------------------------------------------
\* Operations of the in-memory carrier
\* ------------------------------------------------------------------------

MemInit ==
    /\ carrier \in Carriers
    /\ queue = State_new.queue
    /\ wakers = State_new.wakers
    /\ closed = State_new.closed
    /\ rcv = [r \in Receivers |-> NoReceive]
    /\ notified = {}
    /\ send_result = "None"
    /\ sent = <<>>
    /\ received = <<>>

\* Receive::receive: a new receive future
Receive(r) ==
    /\ rcv[r].phase = "idle"
    /\ rcv' = [rcv EXCEPT ![r] = Receive_new]
    /\ UNCHANGED <<carrier, queue, wakers, closed, notified, send_result, sent, received>>
    /\ UNCHANGED mem_rest

\* Receive::poll
Poll(r) ==
    /\ rcv[r].phase = "live"
    /\ notified' = notified \ {r}
    /\ IF rcv[r].terminated
       THEN UNCHANGED <<queue, wakers, rcv, received>>
       ELSE IF queue # <<>>
       THEN /\ queue' = pop_back_rest(queue)
            /\ received' = Append(received, pop_back_item(queue))
            /\ rcv' = [rcv EXCEPT ![r].terminated = TRUE, ![r].cell = FALSE,
                                  ![r].woken = FALSE, ![r].out = "Ok"]
            /\ UNCHANGED wakers
       ELSE IF closed
       THEN /\ rcv' = [rcv EXCEPT ![r].terminated = TRUE, ![r].out = "Closed"]
            /\ UNCHANGED <<queue, wakers, received>>
       ELSE /\ Len(wakers) < MaxWakers
            /\ rcv' = [rcv EXCEPT ![r].cell = TRUE, ![r].woken = FALSE,
                                  ![r].out = "Pending"]
            /\ wakers' = register(wakers, r)
            /\ UNCHANGED <<queue, received>>
    /\ UNCHANGED <<carrier, closed, send_result, sent>>
    /\ UNCHANGED mem_rest

\* Drop for Receive
DropReceive(r) ==
    /\ rcv[r].phase = "live"
    /\ LET gone == [rcv EXCEPT ![r].phase = "dropped", ![r].cell = FALSE,
                               ![r].woken = FALSE]
           w == wake_next_target(wakers, CellsWithout(r))
       IN IF rcv[r].cell /\ rcv[r].woken
          THEN /\ wakers' = wake_next_wakers(wakers, CellsWithout(r))
               /\ rcv' = mark_woken(gone, w)
               /\ notified' = wake_by_ref(notified \ {r}, w)
          ELSE /\ rcv' = gone
               /\ notified' = notified \ {r}
               /\ UNCHANGED wakers
    /\ UNCHANGED <<carrier, queue, closed, send_result, sent, received>>
    /\ UNCHANGED mem_rest

\* Send::poll with Sender::send (loopback) and Send::poll (dummy)
Send(m) ==
    /\ UNCHANGED mem_rest
    /\ IF send_rejected(closed)
       THEN /\ send_result' = "Closed"
            /\ UNCHANGED <<carrier, queue, wakers, closed, rcv, notified, sent, received>>
       ELSE /\ Len(sent) < MaxSends
            /\ queue' = message(queue, m)
            /\ sent' = Append(sent, m)
            /\ send_result' = "Ok"
            /\ LET w == wake_next_target(wakers, Cells)
               IN IF send_wakes(carrier)
                  THEN /\ wakers' = wake_next_wakers(wakers, Cells)
                       /\ rcv' = mark_woken(rcv, w)
                       /\ notified' = wake_by_ref(notified, w)
                  ELSE UNCHANGED <<wakers, rcv, notified>>
            /\ UNCHANGED <<carrier, closed, received>>

\* Close::poll of a fresh close future: State::close
Close ==
    /\ closed' = TRUE
    /\ LET w == wake_next_target(wakers, Cells)
       IN /\ wakers' = wake_next_wakers(wakers, Cells)
          /\ rcv' = mark_woken(rcv, w)
          /\ notified' = wake_by_ref(notified, w)
    /\ UNCHANGED <<carrier, queue, send_result, sent, received>>
    /\ UNCHANGED mem_rest

MemNext ==
    \/ \E r \in Receivers : Receive(r)
    \/ \E r \in Receivers : Poll(r)
    \/ \E r \in Receivers : DropReceive(r)
    \/ \E m \in Messages : Send(m)
    \/ Close

\* ------------------------------------------------------------------------
\* The Web Worker carrier
\* ------------------------------------------------------------------------

\* user messages one side posts before the model stops sending
MaxPosts == 2

\* the page side (Transport::new) and the worker side (Transport::new_in_worker)
Sides == {"page", "worker"}

Peer(s) == IF s = "page" THEN "worker" ELSE "page"

\* enum Wrapper: Open, Message(m), Close
WrapOpen == [tag |-> "Open", body |-> 0]

WrapMessage(m) == [tag |-> "Message", body |-> m]

WrapClose == [tag |-> "Close", body |-> 0]

\* State::new of the worker carrier
WkState_new == [incoming |-> <<>>, waker |-> FALSE, closed |-> FALSE]

\* State::wake: self.waker.take() and wake it
wk_wake(st) == [st EXCEPT !.waker = FALSE]

\* State::message: incoming.push_back(Ok(message)), wake
wk_message(st, m) == wk_wake([st EXCEPT !.incoming = Append(@, m)])

wk_close_unmarked(st) == wk_wake(st)

\* State::close: closed = true, wake
wk_close(st) == wk_wake([st EXCEPT !.closed = TRUE])

\* State::update_waker_with
wk_update_waker_with(st) == [st EXCEPT !.waker = TRUE]

\* Transport::send_inner: encode the wrapper and post it to the peer
wk_send_inner(ch, s, w) == [ch EXCEPT ![Peer(s)] = Append(@, w)]

wk_close_again_ok(cl) == "Ok"

\* Sink::poll_close: what it returns on a carrier whose closed flag is cl
wk_poll_close_result(cl) == IF cl THEN "Closed" ELSE "Ok"

WkInit ==
    /\ wk_state = [s \in Sides |-> WkState_new]
    /\ wk_chan = [s \in Sides |-> <<>>]
    /\ wk_posted = [s \in Sides |-> 0]
    /\ wk_ret = [side |-> "page", op |-> "new", res |-> "Ok"]

\* Sink::poll_ready
WkPollReady(s) ==
    /\ wk_ret' = [side |-> s, op |-> "poll_ready",
            res |-> IF wk_state[s].closed THEN "Closed" ELSE "Ok"]
    /\ UNCHANGED <<wk_state, wk_chan, wk_posted>>
    /\ UNCHANGED wk_rest

\* Sink::start_send
WkStartSend(s, m) ==
    /\ IF wk_state[s].closed
       THEN /\ wk_ret' = [side |-> s, op |-> "start_send", res |-> "Closed"]
            /\ UNCHANGED <<wk_chan, wk_posted>>
       ELSE /\ wk_posted[s] < MaxPosts
            /\ wk_chan' = wk_send_inner(wk_chan, s, WrapMessage(m))
            /\ wk_posted' = [wk_posted EXCEPT ![s] = @ + 1]
            /\ wk_ret' = [side |-> s, op |-> "start_send", res |-> "Ok"]
    /\ UNCHANGED wk_state
    /\ UNCHANGED wk_rest

\* Sink::poll_flush
WkPollFlush(s) ==
    /\ wk_ret' = [side |-> s, op |-> "poll_flush",
            res |-> IF wk_state[s].closed THEN "Closed" ELSE "Ok"]
    /\ UNCHANGED <<wk_state, wk_chan, wk_posted>>
    /\ UNCHANGED wk_rest

\* Sink::poll_close
WkPollClose(s) ==
    /\ wk_ret' = [side |-> s, op |-> "poll_close", res |-> wk_poll_close_result(wk_state[s].closed)]
    /\ IF wk_state[s].closed
       THEN UNCHANGED <<wk_state, wk_chan>>
       ELSE /\ wk_chan' = wk_send_inner(wk_chan, s, WrapClose)
            /\ wk_state' = [wk_state EXCEPT ![s] = wk_close(@)]
    /\ UNCHANGED wk_posted
    /\ UNCHANGED wk_rest

\* the "message" event listener of side s takes the oldest posted event
WkOnMessage(s) ==
    /\ wk_chan[s] # <<>>
    /\ wk_chan' = [wk_chan EXCEPT ![s] = Tail(@)]
    /\ LET w == Head(wk_chan[s])
       IN wk_state' = [wk_state EXCEPT ![s] =
              IF w.tag = "Message" THEN wk_message(@, w.body)
              ELSE IF w.tag = "Close" THEN wk_close(@)
              ELSE @]
    /\ UNCHANGED <<wk_posted, wk_ret>>
    /\ UNCHANGED wk_rest

\* Stream::poll_next
WkPollNext(s) ==
    /\ IF wk_state[s].closed /\ wk_state[s].incoming = <<>>
       THEN /\ wk_ret' = [side |-> s, op |-> "poll_next", res |-> "None"]
            /\ UNCHANGED wk_state
       ELSE IF wk_state[s].incoming # <<>>
       THEN /\ wk_ret' = [side |-> s, op |-> "poll_next", res |-> "Item"]
            /\ wk_state' = [wk_state EXCEPT ![s].incoming = Tail(@)]
       ELSE /\ wk_ret' = [side |-> s, op |-> "poll_next", res |-> "Pending"]
            /\ wk_state' = [wk_state EXCEPT ![s] = wk_update_waker_with(@)]
    /\ UNCHANGED <<wk_chan, wk_posted>>
    /\ UNCHANGED wk_rest

WkNext ==
    \/ \E s \in Sides : WkPollReady(s)
    \/ \E s \in Sides, m \in Messages : WkStartSend(s, m)
    \/ \E s \in Sides : WkPollFlush(s)
    \/ \E s \in Sides : WkPollClose(s)
    \/ \E s \in Sides : WkOnMessage(s)
    \/ \E s \in Sides : WkPollNext(s)

\* ------------------------------------------------------------------------
\* The TCP carrier: the length-prefixed framer
\* ------------------------------------------------------------------------

\* the max_message_size end "b" is built with; end "a" allows one byte more
MaxSize == 1

\* start_send calls that put bytes into send_buffer before the model stops
\* sending; one end of a connection sends in a run of the model, the other end
\* only reads and closes
MaxFrames == 2

\* start_send calls refused as too large before the model stops sending such
MaxRefused == 1

\* the values a byte of an encoded message may have
PayloadBytes == {1, 2}

\* the two ends of one connection, each a Transport over its socket
Ends == {"a", "b"}

Other(s) == IF s = "a" THEN "b" ELSE "a"

\* the byte strings codec.encode may write into send_buffer for one item
Payloads == UNION {[1..n -> PayloadBytes] : n \in 0..(MaxSize + 1)}

\* what codec.encode has written when it fails
PartialWrites == {p \in Payloads : Len(p) <= 1}

\* ReceiveState::new
ReceiveState_new ==
    [buffer |-> <<>>, message_size |-> 0, receiving_size |-> TRUE,
     bytes_to_receive |-> 4, bytes_to_skip |-> 0]

\* Transport::new_with_max_message_size
Transport_new(max) ==
    [send_buffer |-> <<>>, receive_state |-> ReceiveState_new,
     terminated |-> FALSE, max_message_size |-> max]

to_le_bytes(n) ==
    <<n % 256, (n \div 256) % 256, (n \div 65536) % 256, (n \div 16777216) % 256>>

\* u32::to_be_bytes
to_be_bytes(n) ==
    <<(n \div 16777216) % 256, (n \div 65536) % 256, (n \div 256) % 256, n % 256>>

\* Buf::get_u32 reads the first four bytes, big-endian
get_u32(b) == b[1] * 16777216 + b[2] * 65536 + b[3] * 256 + b[4]

\* Buf::advance(n)
advance(b, n) == SubSeq(b, n + 1, Len(b))

\* BytesMut::truncate(n)
truncate(b, n) == SubSeq(b, 1, n)

refused_keeps_placeholder(b, size_position) == truncate(b, size_position + 4)

\* send_buffer.truncate(size_position) of a message refused as too large
refused_buffer(b, size_position) == truncate(b, size_position)

\* size_slice.swap_with_slice: the four bytes at size_position become bs
swap_with_slice(b, size_position, bs) ==
    [i \in 1..Len(b) |->
        IF i > size_position /\ i <= size_position + 4 THEN bs[i - size_position] ELSE b[i]]

\* Sink::start_send on an open transport: the buffer it leaves and its result,
\* for an item the codec encodes as p (ok) or fails on after writing p (~ok)
start_send(t, p, ok) ==
    LET size_position == Len(t.send_buffer)
        placed == t.send_buffer \o <<0, 0, 0, 0>>
        current_length == Len(placed)
        encoded == placed \o p
        message_size == Len(encoded) - current_length
    IN IF ~ok
       THEN [send_buffer |-> encoded, res |-> "SerializationError"]
       ELSE IF message_size > t.max_message_size
            THEN [send_buffer |-> refused_buffer(encoded, size_position),
                  res |-> "MessageTooLarge"]
            ELSE [send_buffer |->
                      swap_with_slice(encoded, size_position, to_be_bytes(message_size)),
                  res |-> "Ok"]

skipped_nothing(buffer_len, bytes_to_skip) == 0

\* buffer_len.min(bytes_to_skip): the buffered bytes that belong to an oversize
\* frame
skipped_bytes(buffer_len, bytes_to_skip) ==
    IF buffer_len <= bytes_to_skip THEN buffer_len ELSE bytes_to_skip

\* the arm Ok(bytes_read) of poll_next, bytes_read > 0: the receive state after
\* the chunk has been appended to the buffer
after_read(rs, chunk) ==
    LET buf == rs.buffer \o chunk
        btr == rs.bytes_to_receive - Len(chunk)
        skipped == skipped_bytes(Len(buf), rs.bytes_to_skip)
    IN IF rs.bytes_to_skip > 0
       THEN [rs EXCEPT !.buffer = advance(buf, skipped),
                       !.bytes_to_receive = btr,
                       !.bytes_to_skip = rs.bytes_to_skip - skipped]
       ELSE [rs EXCEPT !.buffer = buf, !.bytes_to_receive = btr]

\* what one call of poll_next returns with
Returned(rs, wire, term, res, item) ==
    [rs |-> rs, wire |-> wire, terminated |-> term, res |-> res, item |-> item]

RECURSIVE poll_next_loop(_, _, _, _, _)
\* the loop of Stream::poll_next on a transport that is not terminated: every
\* way one call can return, the socket handing over the bytes in flight in
\* chunks of any size (reset: the connection was reset; eof: the peer has shut
\* its writing half down)
poll_next_loop(rs, wire, max, reset, eof) ==
    IF rs.bytes_to_receive <= 0
    THEN IF rs.receiving_size
         THEN IF Len(rs.buffer) < 4
              THEN {Returned(rs, wire, FALSE, "Panic", <<>>)}
              ELSE LET message_size == get_u32(rs.buffer)
                       buf == advance(rs.buffer, 4)
                       sized == [rs EXCEPT !.buffer = buf,
                                           !.message_size = message_size,
                                           !.bytes_to_receive = @ + message_size]
                   IN IF message_size > max
                      THEN LET btr == sized.bytes_to_receive + 4
                           IN IF btr > 0
                              THEN {Returned([sized EXCEPT !.bytes_to_receive = btr,
                                                           !.bytes_to_skip = message_size],
                                             wire, FALSE, "MessageTooLarge", <<>>)}
                              ELSE IF Len(buf) < message_size
                                   THEN {Returned(rs, wire, FALSE, "Panic", <<>>)}
                                   ELSE {Returned([sized EXCEPT
                                                      !.bytes_to_receive = btr,
                                                      !.buffer = advance(buf, message_size)],
                                                  wire, FALSE, "MessageTooLarge", <<>>)}
                      ELSE poll_next_loop([sized EXCEPT !.receiving_size = FALSE],
                                          wire, max, reset, eof)
         ELSE IF Len(rs.buffer) < rs.message_size
              THEN {Returned(rs, wire, FALSE, "Panic", <<>>)}
              ELSE {Returned([rs EXCEPT !.buffer = advance(@, rs.message_size),
                                        !.receiving_size = TRUE,
                                        !.bytes_to_receive = @ + 4],
                             wire, FALSE, "Item", SubSeq(rs.buffer, 1, rs.message_size))}
    ELSE IF reset
         THEN {Returned(rs, wire, TRUE, "None", <<>>)}
         ELSE IF wire = <<>>
              THEN IF eof
                   THEN {Returned(rs, wire, TRUE, "None", <<>>)}
                   ELSE {Returned(rs, wire, FALSE, "Pending", <<>>)}
              ELSE {Returned(rs, wire, FALSE, "Pending", <<>>)}
                   \cup UNION {poll_next_loop(after_read(rs, SubSeq(wire, 1, n)),
                                              advance(wire, n), max, reset, eof)
                               : n \in 1..Len(wire)}

TcpInit ==
    /\ tcp = [s \in Ends |-> Transport_new(IF s = "a" THEN MaxSize + 1 ELSE MaxSize)]
    /\ tcp_wire = [s \in Ends |-> <<>>]
    /\ tcp_shut = [s \in Ends |-> FALSE]
    /\ tcp_reset = FALSE
    /\ tcp_log = [s \in Ends |-> <<>>]
    /\ tcp_got = [s \in Ends |-> <<>>]

\* the start_send calls of the log l that put bytes into send_buffer
Framed(l) == SelectSeq(l, LAMBDA e : e.res # "MessageTooLarge")

\* the start_send calls of the log l that were refused as too large
Refused(l) == SelectSeq(l, LAMBDA e : e.res = "MessageTooLarge")

send_never_closed(t) == FALSE

\* Sink::start_send: if self.terminated
send_closed(t) == t.terminated

\* Sink::start_send: what it returns
start_send_result(s, p, ok) ==
    IF send_closed(tcp[s]) THEN "Closed" ELSE start_send(tcp[s], p, ok).res

\* Sink::start_send with an item the codec encodes as p, or fails on after p
\* (the log keeps no payload of a message refused as too large)
StartSendStep(s, p, ok) ==
    /\ IF send_closed(tcp[s])
       THEN UNCHANGED <<tcp, tcp_log>>
       ELSE /\ tcp_log[Other(s)] = <<>>
            /\ ok \/ p \in PartialWrites
            /\ LET done == start_send(tcp[s], p, ok)
               IN /\ IF done.res = "MessageTooLarge"
                     THEN Len(Refused(tcp_log[s])) < MaxRefused
                     ELSE Len(Framed(tcp_log[s])) < MaxFrames
                  /\ tcp' = [tcp EXCEPT ![s].send_buffer = done.send_buffer]
                  /\ tcp_log' = [tcp_log EXCEPT ![s] =
                        Append(@, [payload |-> IF done.res = "MessageTooLarge"
                                               THEN <<>> ELSE p,
                                   res |-> done.res])]
    /\ UNCHANGED <<tcp_wire, tcp_shut, tcp_reset, tcp_got>>

TcpStartSend(s, p, ok) == StartSendStep(s, p, ok) /\ UNCHANGED tcp_rest

\* Sink::poll_flush: what it returns
poll_flush_result(s) ==
    IF tcp[s].send_buffer = <<>> THEN "Ok"
    ELSE IF tcp_reset THEN "Closed"
    ELSE IF tcp_shut[s] THEN "IoError"
    ELSE "Ok"

\* Sink::poll_flush: one poll_write_buf, the socket taking n bytes
PollFlushStep(s, n) ==
    /\ IF tcp[s].send_buffer = <<>> \/ poll_flush_result(s) # "Ok"
       THEN /\ n = 1
            /\ UNCHANGED <<tcp, tcp_wire>>
       ELSE /\ n <= Len(tcp[s].send_buffer)
            /\ tcp_wire' = [tcp_wire EXCEPT ![Other(s)] =
                               @ \o SubSeq(tcp[s].send_buffer, 1, n)]
            /\ tcp' = [tcp EXCEPT ![s].send_buffer = advance(@, n)]
    /\ UNCHANGED <<tcp_shut, tcp_reset, tcp_log, tcp_got>>

TcpPollFlush(s, n) == PollFlushStep(s, n) /\ UNCHANGED tcp_rest

\* Sink::poll_close: poll_shutdown of the socket, which fails once it is reset
PollCloseStep(s) ==
    /\ tcp_shut' = IF tcp_reset THEN tcp_shut ELSE [tcp_shut EXCEPT ![s] = TRUE]
    /\ UNCHANGED <<tcp, tcp_wire, tcp_reset, tcp_log, tcp_got>>

TcpPollClose(s) == PollCloseStep(s) /\ UNCHANGED tcp_rest

\* Sink::poll_close: what it returns
poll_close_result(s) == IF tcp_reset THEN "Closed" ELSE "Ok"

\* a poll_next of end s has panicked: the task that polled it is gone
Panicked(s) == \E i \in 1..Len(tcp_got[s]) : tcp_got[s][i].res = "Panic"

\* Stream::poll_next: if self.terminated
poll_next_ended(t) == t.terminated

\* Stream::poll_next: every way one call on end s can return
poll_next(s) ==
    IF poll_next_ended(tcp[s])
    THEN {Returned(tcp[s].receive_state, tcp_wire[s], tcp[s].terminated, "None", <<>>)}
    ELSE poll_next_loop(tcp[s].receive_state, tcp_wire[s],
                        tcp[s].max_message_size, tcp_reset, tcp_shut[Other(s)])

\* Stream::poll_next returning with out
PollNextStep(s, out) ==
    /\ ~Panicked(s)
    /\ out \in poll_next(s)
    /\ tcp' = [tcp EXCEPT ![s].receive_state = out.rs,
                          ![s].terminated = out.terminated]
    /\ tcp_wire' = [tcp_wire EXCEPT ![s] = out.wire]
    /\ tcp_got' = IF out.res \in {"Item", "MessageTooLarge", "Panic"}
                  THEN [tcp_got EXCEPT ![s] =
                           Append(@, [payload |-> out.item, res |-> out.res])]
                  ELSE tcp_got
    /\ UNCHANGED <<tcp_shut, tcp_reset, tcp_log>>

\* Stream::poll_next
TcpPollNext(s) ==
    /\ \E out \in poll_next(s) : PollNextStep(s, out)
    /\ UNCHANGED tcp_rest

\* the connection is reset under both ends
ConnectionResetStep ==
    /\ ~tcp_reset
    /\ tcp_reset' = TRUE
    /\ UNCHANGED <<tcp, tcp_wire, tcp_shut, tcp_log, tcp_got>>

TcpConnectionReset == ConnectionResetStep /\ UNCHANGED tcp_rest

TcpNext ==
    \/ \E s \in Ends, p \in Payloads, ok \in BOOLEAN : TcpStartSend(s, p, ok)
    \/ \E s \in Ends, n \in 1..(MaxFrames * (MaxSize + 5)) : TcpPollFlush(s, n)
    \/ \E s \in Ends : TcpPollClose(s)
    \/ \E s \in Ends : TcpPollNext(s)
    \/ TcpConnectionReset

\* ------------------------------------------------------------------------
\* The decorators of mezzenger-utils: Numbered and LatestOnly
\* ------------------------------------------------------------------------

\* N::MAX of the number type N the model numbers messages with
NumberMax == 2

\* messages Numbered sends before the model stops sending
MaxNumbered == 4

\* items one poll of LatestOnly takes from its inner stream at most
MaxDrain == 3

\* Option<N>::None of last_number
NoNumber == -1

\* the numbers of N
Numbers == 0..NumberMax

\* Wrapper { number, wrapped }: the k-th message sent, numbered n
Wrap(n, k) == [number |-> n, wrapped |-> k]

\* latest = None
NoItem == Wrap(NoNumber, 0)

saturating_add(n) == IF n = NumberMax THEN NumberMax ELSE n + 1

\* current_number.wrapping_add(&One::one())
wrapping_add(n) == (n + 1) % (NumberMax + 1)

is_newer_or_same(number, last) == last = NoNumber \/ number >= last

is_newer_in_window(number, last) ==
    \/ last = NoNumber
    \/ ((number - last + NumberMax + 1) % (NumberMax + 1)) \in 1..((NumberMax + 1) \div 2)

\* last_number.is_none() || &number > last_number.as_ref().unwrap()
is_newer(number, last) == last = NoNumber \/ number > last

RECURSIVE lo_drain(_, _, _)
\* the arm Poll::Ready(Some(Ok(item))) of LatestOnly::poll_next, once for each
\* item of q: last_number and latest after them
lo_drain(q, last, latest) ==
    IF q = <<>> THEN [last_number |-> last, latest |-> latest]
    ELSE LET item == Head(q)
             number == item.number
         IN IF is_newer(number, last)
            THEN lo_drain(Tail(q), number, item)
            ELSE lo_drain(Tail(q), last, latest)

\* what LatestOnly::poll_next returns when its inner stream, after the items
\* drained, returns Pending, ends (None) or yields an error (Err)
lo_return(latest, end) ==
    IF end = "Pending"
    THEN IF latest # NoItem THEN [res |-> "Item", item |-> latest]
                            ELSE [res |-> "Pending", item |-> NoItem]
    ELSE [res |-> end, item |-> NoItem]

\* the ways an unordered inner stream can hand over items in flight: any of
\* them, in any order
Drains(flight) ==
    {q \in UNION {[1..n -> flight] : n \in 0..MaxDrain} :
        \A i, j \in 1..Len(q) : i # j => q[i] # q[j]}

UtInit ==
    /\ nm_current = 0
    /\ nm_log = <<>>
    /\ nm_failed = {}
    /\ nl_flight = {}
    /\ lo_last_number = NoNumber
    /\ lo_inner_done = FALSE
    /\ lo_emitted = <<>>
    /\ lo_poll = [before |-> NoNumber, drained |-> <<>>, end |-> "Pending",
                  res |-> "Pending", item |-> NoItem]

advances_regardless(ok) == TRUE

\* Numbered::start_send: if result.is_ok()
advances(ok) == ok

\* Numbered::start_send, the inner start_send succeeding (ok) or failing
NmStartSend(ok) ==
    /\ IF ok
       THEN /\ Len(nm_log) < MaxNumbered
            /\ LET item == Wrap(nm_current, Len(nm_log) + 1)
               IN /\ nm_log' = Append(nm_log, item)
                  /\ nl_flight' = nl_flight \cup {item}
            /\ UNCHANGED nm_failed
       ELSE /\ nm_failed' = nm_failed \cup {Len(nm_log)}
            /\ UNCHANGED <<nm_log, nl_flight>>
    /\ nm_current' = IF advances(ok) THEN wrapping_add(nm_current) ELSE nm_current
    /\ UNCHANGED <<lo_last_number, lo_inner_done, lo_emitted, lo_poll>>
    /\ UNCHANGED ut_rest

\* LatestOnly::poll_next: the inner stream yields the items of drained and then
\* returns Pending, ends, or yields an error
LoPollNext(drained, end) ==
    /\ IF lo_inner_done THEN drained = <<>> /\ end = "None"
                        ELSE drained \in Drains(nl_flight)
    /\ LET after == lo_drain(drained, lo_last_number, NoItem)
           ret == lo_return(after.latest, end)
       IN /\ lo_last_number' = after.last_number
          /\ lo_emitted' = IF ret.res = "Item" THEN Append(lo_emitted, ret.item)
                                               ELSE lo_emitted
          /\ lo_poll' = [before |-> lo_last_number, drained |-> drained,
                         end |-> end, res |-> ret.res, item |-> ret.item]
    /\ nl_flight' = nl_flight \ {drained[i] : i \in 1..Len(drained)}
    /\ lo_inner_done' = (lo_inner_done \/ end = "None")
    /\ UNCHANGED <<nm_current, nm_log, nm_failed>>
    /\ UNCHANGED ut_rest

UtNext ==
    \/ \E ok \in BOOLEAN : NmStartSend(ok)
    \/ \E drained \in Drains(nl_flight), end \in {"Pending", "None", "Err"} :
          LoPollNext(drained, end)

\* ------------------------------------------------------------------------
\* Part V: the WebSocket carrier
\* ------------------------------------------------------------------------

\* what the model lets arrive on one connection
MaxArrive == 3

\* the wrappers: Transport of native.rs, Transport of warp.rs, Receiver of
\* warp/receiver.rs
WsImpls == {"native", "warp", "receiver"}

\* a binary payload the codec cannot decode
Garbage == 0

WsPayloads == Messages \cup {Garbage}

\* what the inner stream can hand out: a frame, an error, or its end. Reset is
\* Protocol(ResetWithoutClosingHandshake), Io any other tungstenite error.
WsFrameKinds == {"Text", "Ping", "Pong", "Close"}

WsErrorKinds == {"Reset", "AlreadyClosed", "ConnectionClosed", "Io"}

WsFrames ==
    [kind : {"Binary"}, payload : WsPayloads]
    \cup [kind : WsFrameKinds \cup WsErrorKinds \cup {"End"}, payload : {Garbage}]

\* what the inner stream has not handed out yet
ws_inbox == SubSeq(ws_arrived, ws_read + 1, Len(ws_arrived))

\* codec.decode of the bytes of a binary frame
ws_decode(payload) ==
    IF payload = Garbage
    THEN [res |-> "Item", item |-> "DeserializationError"]
    ELSE [res |-> "Item", item |-> payload]

\* the arm of poll_next taken for a frame that is neither binary nor, for the
\* transports, a close frame: Poll::Pending, with no second poll of the inner
\* stream
skipped_frame == [res |-> "Pending", item |-> Garbage]

\* poll_next for what the inner stream returned Ready with: the result, and
\* whether terminated is set
ws_poll_next(impl, frame) ==
    LET ends == [res |-> "None", item |-> Garbage]
        fails == [res |-> "Item", item |-> "TransportError"]
    IN CASE frame.kind = "Binary" ->
              [out |-> ws_decode(frame.payload), terminated |-> FALSE]
         [] frame.kind = "Close" ->
              IF impl = "receiver"
              THEN [out |-> skipped_frame, terminated |-> FALSE]
              ELSE [out |-> ends, terminated |-> TRUE]
         [] frame.kind \in {"Text", "Ping", "Pong"} ->
              [out |-> skipped_frame, terminated |-> FALSE]
         [] frame.kind = "Reset" ->
              IF impl = "receiver"
              THEN [out |-> fails, terminated |-> FALSE]
              ELSE [out |-> ends, terminated |-> TRUE]
         [] frame.kind \in {"AlreadyClosed", "ConnectionClosed", "Io"} ->
              [out |-> fails, terminated |-> FALSE]
         [] frame.kind = "End" ->
              [out |-> ends, terminated |-> impl # "receiver"]

\* map_error / map_warp_error: the error of the inner sink as a transport error
map_error(error) ==
    IF error \in {"ConnectionClosed", "AlreadyClosed"} THEN "Closed" ELSE "Other"

\* what the inner sink may answer to start_send
WsSinkAnswers == {"Ok", "ConnectionClosed", "AlreadyClosed", "Protocol"}

\* start_send: encode, then hand the frame to the inner sink
ws_start_send(encodes, answer) ==
    IF ~encodes THEN "SerializationError"
    ELSE IF answer = "Ok" THEN "Ok"
    ELSE map_error(answer)

NoPoll == [kind |-> "Nothing", res |-> "Unpolled"]

NoSend == [after |-> FALSE, res |-> "Unsent"]

WsInit(impl) ==
    /\ ws_impl = impl
    /\ ws_arrived = <<>>
    /\ ws_read = 0
    /\ ws_terminated = FALSE
    /\ ws_waker = FALSE
    /\ ws_notified = TRUE
    /\ ws_yielded = <<>>
    /\ ws_last = NoPoll
    /\ ws_ending = FALSE
    /\ ws_send = NoSend

\* a frame, an error or the end reaches the inner stream, which wakes the task
\* whose waker it holds. After its end the inner stream has nothing more.
WsArrive(frame) ==
    /\ Len(ws_arrived) < MaxArrive
    /\ \A i \in 1..Len(ws_arrived) : ws_arrived[i].kind # "End"
    /\ ws_arrived' = Append(ws_arrived, frame)
    /\ ws_notified' = (ws_notified \/ ws_waker)
    /\ ws_waker' = FALSE
    /\ UNCHANGED <<ws_impl, ws_read, ws_terminated, ws_yielded, ws_last,
                   ws_ending, ws_send>>
    /\ UNCHANGED ws_rest

\* the receiving task, scheduled, polls the stream once. The inner stream
\* keeps the waker only when it returns Pending itself; a task that got an
\* item asks for the next one, a task that got Pending waits for its waker.
WsPollNext ==
    /\ ws_notified
    /\ IF ws_inbox = <<>>
       THEN /\ ws_waker' = TRUE
            /\ ws_notified' = FALSE
            /\ ws_last' = [kind |-> "Nothing", res |-> "Pending"]
            /\ UNCHANGED <<ws_read, ws_terminated, ws_yielded, ws_ending>>
       ELSE LET frame == Head(ws_inbox)
                done == ws_poll_next(ws_impl, frame)
            IN /\ ws_read' = ws_read + 1
               /\ ws_terminated' = (ws_terminated \/ done.terminated)
               /\ ws_waker' = FALSE
               /\ ws_notified' = (done.out.res = "Item")
               /\ ws_yielded' = IF done.out.res = "Item"
                                THEN Append(ws_yielded,
                                            [frame |-> frame, item |-> done.out.item])
                                ELSE ws_yielded
               /\ ws_last' = [kind |-> frame.kind, res |-> done.out.res]
               /\ ws_ending' = (ws_ending \/ frame.kind \in
                                   {"Close", "Reset", "AlreadyClosed", "ConnectionClosed"})
    /\ UNCHANGED <<ws_impl, ws_arrived, ws_send>>
    /\ UNCHANGED ws_rest

\* start_send on one of the transports. The inner sink takes frames until the
\* connection is closing and answers with an error afterwards.
WsStartSend(encodes, answer) ==
    /\ ws_impl # "receiver"
    /\ (answer = "Ok") = ~ws_ending
    /\ ws_send' = [after |-> ws_ending, res |-> ws_start_send(encodes, answer)]
    /\ UNCHANGED <<ws_impl, ws_arrived, ws_read, ws_terminated, ws_waker,
                   ws_notified, ws_yielded, ws_last, ws_ending>>
    /\ UNCHANGED ws_rest

WsNext ==
    \/ \E frame \in WsFrames : WsArrive(frame)
    \/ WsPollNext
    \/ \E encodes \in BOOLEAN, answer \in WsSinkAnswers : WsStartSend(encodes, answer)

\* ------------------------------------------------------------------------
\* Part VI: the Stream and Sink facades
\* ------------------------------------------------------------------------

\* results the receiver under the Stream is given
MaxResults == 4

\* items given to the Sink
MaxItems == 3

\* a result of receive that is an error other than Closed
OtherError == 0

StResults == Messages \cup {OtherError}

\* one poll of a fresh receive future on the receiver: the head of the queue,
\* Closed on an empty closed receiver, Pending on an empty open one
st_receive(results, is_closed) ==
    IF results # <<>> THEN IF Head(results) = OtherError
                           THEN [poll |-> "Ready", got |-> "Other", message |-> OtherError]
                           ELSE [poll |-> "Ready", got |-> "Ok", message |-> Head(results)]
    ELSE IF is_closed THEN [poll |-> "Ready", got |-> "Closed", message |-> OtherError]
    ELSE [poll |-> "Pending", got |-> "Pending", message |-> OtherError]

\* Stream::poll_next on what the receive future returned
st_poll_next(polled) ==
    CASE polled.got = "Ok" -> [res |-> "Item", terminated |-> FALSE]
      [] polled.got = "Closed" -> [res |-> "None", terminated |-> TRUE]
      [] polled.got = "Other" -> [res |-> "Pending", terminated |-> FALSE]
      [] polled.got = "Pending" -> [res |-> "Pending", terminated |-> FALSE]

StInit ==
    /\ st_queue = <<>>
    /\ st_closed = FALSE
    /\ st_waker = FALSE
    /\ st_notified = TRUE
    /\ st_terminated = FALSE
    /\ st_pushed = <<>>
    /\ st_out = <<>>
    /\ st_last = [got |-> "Unpolled", res |-> "Unpolled"]

\* the receiver is given a message or an error, and wakes the task whose
\* waker it holds
StPush(result) ==
    /\ ~st_closed
    /\ Len(st_pushed) < MaxResults
    /\ st_queue' = Append(st_queue, result)
    /\ st_pushed' = Append(st_pushed, result)
    /\ st_notified' = (st_notified \/ st_waker)
    /\ st_waker' = FALSE
    /\ UNCHANGED <<st_closed, st_terminated, st_out, st_last>>
    /\ UNCHANGED st_rest

\* the receiver is closed
StClose ==
    /\ ~st_closed
    /\ st_closed' = TRUE
    /\ st_notified' = (st_notified \/ st_waker)
    /\ st_waker' = FALSE
    /\ UNCHANGED <<st_queue, st_terminated, st_pushed, st_out, st_last>>
    /\ UNCHANGED st_rest

\* the consuming task, scheduled, polls the Stream once: a fresh receive
\* future is polled once and dropped. The receiver keeps the waker only when
\* that future returned Pending; a task that got a message asks for the next.
StPollNext ==
    /\ st_notified
    /\ LET polled == st_receive(st_queue, st_closed)
           done == st_poll_next(polled)
       IN /\ st_queue' = IF st_queue # <<>> THEN Tail(st_queue) ELSE st_queue
          /\ st_waker' = (polled.poll = "Pending")
          /\ st_notified' = (done.res = "Item")
          /\ st_terminated' = (st_terminated \/ done.terminated)
          /\ st_out' = IF done.res = "Item" THEN Append(st_out, polled.message)
                       ELSE st_out
          /\ st_last' = [got |-> polled.got, res |-> done.res]
    /\ UNCHANGED <<st_closed, st_pushed>>
    /\ UNCHANGED st_rest

StNext ==
    \/ \E result \in StResults : StPush(result)
    \/ StClose
    \/ StPollNext

\* what the first poll of a send future may return
SendPolls == {"ReadyOk", "ReadyErr", "Pending"}

SkInit ==
    /\ sk_buffer = <<>>
    /\ sk_given = <<>>
    /\ sk_done = <<>>
    /\ sk_last = [after |-> <<>>, sent |-> "Unflushed", res |-> "Unflushed"]

\* Sink::start_send
SkStartSend(item) ==
    /\ Len(sk_given) < MaxItems
    /\ sk_buffer' = Append(sk_buffer, item)
    /\ sk_given' = Append(sk_given, item)
    /\ UNCHANGED <<sk_done, sk_last>>
    /\ UNCHANGED sk_rest

\* Sink::poll_flush: the front of the buffer is popped, a send future for it
\* is polled once and dropped, and its result is the result of the flush
SkPollFlush(outcome) ==
    /\ IF sk_buffer # <<>>
       THEN /\ sk_buffer' = Tail(sk_buffer)
            /\ sk_done' = IF outcome = "Pending" THEN sk_done
                          ELSE Append(sk_done, Head(sk_buffer))
            /\ sk_last' = [after |-> Tail(sk_buffer), sent |-> outcome, res |-> outcome]
       ELSE /\ outcome = "ReadyOk"
            /\ sk_last' = [after |-> sk_buffer, sent |-> "Nothing", res |-> "ReadyOk"]
            /\ UNCHANGED <<sk_buffer, sk_done>>
    /\ UNCHANGED sk_given
    /\ UNCHANGED sk_rest

SkNext ==
    \/ \E item \in Messages : SkStartSend(item)
    \/ \E outcome \in SendPolls : SkPollFlush(outcome)

\* ------------------------------------------------------------------------
\* Part VII: the UDP carrier
\* ------------------------------------------------------------------------

\* start_send and send_to calls on one transport
MaxUdpCalls == 2

\* the number of values of messages_to_send, a usize scaled down to two bits
UsizeModulus == 4

\* the connected peer, to which poll_send transmits, and another address
UdTargets == {"peer", "other"}

\* the messages: one with an empty encoding, one with a non-empty encoding,
\* one the codec fails to encode after it has written a byte
UdBodies == {"unit", "data", "bad"}

\* codec.encode, appending to the buffer: the bytes written, and whether it
\* succeeded. The bytes of a message are those of no other message.
ud_encode(buffer, item) ==
    CASE item.body = "unit" -> [buffer |-> buffer, ok |-> TRUE]
      [] item.body = "data" -> [buffer |-> Append(buffer, item.id), ok |-> TRUE]
      [] item.body = "bad" -> [buffer |-> Append(buffer, item.id), ok |-> FALSE]

\* the encoding of a message alone
ud_encoding(item) == ud_encode(<<>>, item).buffer

\* what the socket may answer to poll_send: all bytes written, a short write,
\* a connection reset or abort, another error, or Pending
UdAnswers == {"Ok", "Short", "Reset", "Io", "Pending"}

\* the state poll_flush works on and what it has done so far
UdFlush(queue_, buffer_, to_send_, encoded_, sent_, failed_) ==
    [send_queue |-> queue_, send_buffer |-> buffer_, messages_to_send |-> to_send_,
     encoded |-> encoded_, sent |-> sent_, failed |-> failed_]

UdReturned(f, res_, open_) ==
    [send_queue |-> f.send_queue, send_buffer |-> f.send_buffer,
     messages_to_send |-> f.messages_to_send, encoded |-> f.encoded,
     sent |-> f.sent, failed |-> f.failed, res |-> res_, open |-> open_]

\* a datagram handed to the socket: the call whose message was awaiting
\* transmission (0 if none was), the address, the bytes
Datagram(for_, via_, target_, payload_) ==
    [for |-> for_, via |-> via_, target |-> target_, payload |-> payload_]

\* the loop of poll_flush on an open transport. The k-th poll_send of the call
\* is answered with answer, those before it with Ok.
RECURSIVE poll_flush_loop(_, _, _, _)
poll_flush_loop(f, k, answer, build) ==
    IF f.send_buffer = <<>> /\ f.messages_to_send = 0
    THEN IF f.send_queue # <<>>
         THEN LET item == Head(f.send_queue)
                  done == ud_encode(f.send_buffer, item)
              IN IF ~done.ok
                 THEN UdReturned(UdFlush(Tail(f.send_queue), <<>>, f.messages_to_send,
                                         f.encoded, f.sent, f.failed \cup {item.id}),
                                 "SerializationError", TRUE)
                 ELSE poll_flush_loop(UdFlush(Tail(f.send_queue), done.buffer,
                                              f.messages_to_send + 1, item.id,
                                              f.sent, f.failed),
                                      k, answer, build)
         ELSE UdReturned(f, "ReadyOk", TRUE)
    ELSE LET now == IF k = 1 THEN answer ELSE "Ok"
             short == now = "Short" /\ f.send_buffer # <<>>
         IN IF now = "Pending" THEN UdReturned(f, "Pending", TRUE)
            ELSE IF f.messages_to_send = 0 /\ build = "debug"
            THEN UdReturned(UdFlush(f.send_queue, f.send_buffer, f.messages_to_send,
                                    f.encoded,
                                    IF now \in {"Ok", "Short"}
                                    THEN Append(f.sent,
                                                Datagram(f.encoded, "flush", "peer",
                                                         IF short
                                                         THEN SubSeq(f.send_buffer, 1,
                                                                     Len(f.send_buffer) - 1)
                                                         ELSE f.send_buffer))
                                    ELSE f.sent,
                                    f.failed),
                            "Panic", TRUE)
            ELSE LET after ==
                        UdFlush(f.send_queue, <<>>,
                                (f.messages_to_send - 1) % UsizeModulus, 0,
                                IF now \in {"Ok", "Short"}
                                THEN Append(f.sent,
                                            Datagram(f.encoded, "flush", "peer",
                                                     IF short
                                                     THEN SubSeq(f.send_buffer, 1,
                                                                 Len(f.send_buffer) - 1)
                                                     ELSE f.send_buffer))
                                ELSE f.sent,
                                IF now = "Ok" \/ (now = "Short" /\ ~short)
                                THEN f.failed
                                ELSE f.failed \cup ({f.encoded} \ {0}))
                 IN CASE now = "Ok" \/ (now = "Short" /\ ~short) ->
                            poll_flush_loop(after, k - 1, answer, build)
                      [] short -> UdReturned(after, "SendingError", TRUE)
                      [] now = "Reset" -> UdReturned(after, "Closed", FALSE)
                      [] now = "Io" -> UdReturned(after, "IoError", TRUE)

\* poll_flush: the loop on an open transport, Closed on a closed one
ud_poll_flush(k, answer) ==
    LET f == UdFlush(ud_queue, ud_buffer, ud_to_send, ud_encoded, <<>>, {})
    IN IF ud_open THEN poll_flush_loop(f, k, answer, ud_build)
       ELSE UdReturned(f, "Closed", FALSE)

\* nothing queued and nothing encoded
ud_idle(f) == f.send_queue = <<>> /\ f.send_buffer = <<>> /\ f.messages_to_send = 0

UdInit ==
    /\ ud_build \in {"debug", "release"}
    /\ ud_open = TRUE
    /\ ud_queue = <<>>
    /\ ud_buffer = <<>>
    /\ ud_to_send = 0
    /\ ud_encoded = 0
    /\ ud_log = <<>>
    /\ ud_wire = <<>>
    /\ ud_errors = {}
    /\ ud_last = [op |-> "new", res |-> "Ok", idle |-> TRUE]
    /\ ud_panicked = FALSE

\* what an operation that went through poll_flush leaves behind
UdFlushed(f, op, res, open) ==
    /\ ud_queue' = f.send_queue
    /\ ud_buffer' = f.send_buffer
    /\ ud_to_send' = f.messages_to_send
    /\ ud_encoded' = f.encoded
    /\ ud_wire' = ud_wire \o f.sent
    /\ ud_errors' = ud_errors \cup f.failed
    /\ ud_open' = open
    /\ ud_panicked' = (f.res = "Panic")
    /\ ud_last' = [op |-> op, res |-> res, idle |-> ud_idle(f)]

\* Sink::start_send
UdStartSend(body) ==
    /\ ~ud_panicked
    /\ Len(ud_log) < MaxUdpCalls
    /\ ud_log' = Append(ud_log, [op |-> "start_send", body |-> body, target |-> "peer"])
    /\ IF ud_open
       THEN /\ ud_queue' = Append(ud_queue, [id |-> Len(ud_log) + 1, body |-> body])
            /\ ud_last' = [op |-> "start_send", res |-> "Ok", idle |-> FALSE]
            /\ UNCHANGED ud_errors
       ELSE /\ ud_last' = [op |-> "start_send", res |-> "Closed", idle |-> FALSE]
            /\ ud_errors' = ud_errors \cup {Len(ud_log) + 1}
            /\ UNCHANGED ud_queue
    /\ UNCHANGED <<ud_build, ud_open, ud_buffer, ud_to_send, ud_encoded, ud_wire,
                   ud_panicked>>
    /\ UNCHANGED ud_rest

\* Sink::poll_flush
UdPollFlush(k, answer) ==
    /\ ~ud_panicked
    /\ LET f == ud_poll_flush(k, answer)
       IN UdFlushed(f, "poll_flush", f.res, f.open)
    /\ UNCHANGED <<ud_build, ud_log>>
    /\ UNCHANGED ud_rest

\* Sink::poll_close: a flush, then the socket is given up whatever the flush
\* returned
UdPollClose(k, answer) ==
    /\ ~ud_panicked
    /\ LET f == ud_poll_flush(k, answer)
       IN CASE f.res = "Pending" -> UdFlushed(f, "poll_close", "Pending", f.open)
            [] f.res = "Panic" -> UdFlushed(f, "poll_close", "Panic", f.open)
            [] OTHER -> UdFlushed(f, "poll_close", "ReadyOk", FALSE)
    /\ UNCHANGED <<ud_build, ud_log>>
    /\ UNCHANGED ud_rest

\* send_to: the flush is awaited and its error returned; then the message is
\* encoded into send_buffer and the buffer handed to the socket with the
\* target. The buffer is left as it is.
UdSendTo(body, target, k, answer, accepted) ==
    /\ ~ud_panicked
    /\ Len(ud_log) < MaxUdpCalls
    /\ answer # "Pending"
    /\ ud_log' = Append(ud_log, [op |-> "send_to", body |-> body, target |-> target])
    /\ LET id == Len(ud_log) + 1
           f == ud_poll_flush(k, answer)
           done == ud_encode(f.send_buffer, [id |-> id, body |-> body])
           g == UdFlush(f.send_queue, done.buffer, f.messages_to_send, f.encoded,
                        IF done.ok /\ accepted
                        THEN Append(f.sent, Datagram(id, "send_to", target, done.buffer))
                        ELSE f.sent,
                        IF done.ok /\ accepted THEN f.failed ELSE f.failed \cup {id})
       IN IF f.res # "ReadyOk"
          THEN UdFlushed(UdReturned(UdFlush(f.send_queue, f.send_buffer,
                                            f.messages_to_send, f.encoded, f.sent,
                                            f.failed \cup {id}),
                                    f.res, f.open),
                         "send_to", f.res, f.open)
          ELSE UdFlushed(UdReturned(g, "ReadyOk", TRUE), "send_to",
                         IF ~done.ok THEN "SerializationError"
                         ELSE IF accepted THEN "Ok" ELSE "IoError",
                         TRUE)
    /\ UNCHANGED ud_build
    /\ UNCHANGED ud_rest

UdNext ==
    \/ \E body \in UdBodies : UdStartSend(body)
    \/ \E k \in 1..2, answer \in UdAnswers : UdPollFlush(k, answer)
    \/ \E k \in 1..2, answer \in UdAnswers : UdPollClose(k, answer)
    \/ \E body \in UdBodies, target \in UdTargets, k \in 1..2,
          answer \in UdAnswers, accepted \in BOOLEAN :
          UdSendTo(body, target, k, answer, accepted)

\* ------------------------------------------------------------------------
\* Part VIII: the open handshake of the Web Worker carrier
\* ------------------------------------------------------------------------

\* new_inner: the side that posts its Open before it awaits the peer's
nobody_opens_first(is_worker) == FALSE

opens_first(is_worker) == is_worker

\* open_notifier.pop(): completes once the queue holds an item
pop_without_waiting(notifier) == TRUE

pop_ready(notifier) == notifier.items > 0

\* Transport::send_inner of a side of the handshake: post the wrapper to the peer
hs_send_inner(ch, s, w) == [ch EXCEPT ![Peer(s)] = Append(@, w)]

HsInit ==
    /\ hs_phase = [s \in Sides |-> "created"]
    /\ hs_listening = [s \in Sides |-> FALSE]
    /\ hs_chan = [s \in Sides |-> <<>>]
    /\ hs_notifier = [s \in Sides |-> [alive |-> TRUE, items |-> 0]]
    /\ hs_incoming = [s \in Sides |-> <<>>]
    /\ hs_opens = [s \in Sides |-> 0]
    /\ hs_early = FALSE
    /\ hs_posted = [s \in Sides |-> 0]
    /\ hs_panicked = FALSE

\* the first poll of new_inner: the listeners are registered, the worker side
\* posts Open, and the future awaits open_notifier.pop()
HsNewInner(s) ==
    /\ ~hs_panicked
    /\ hs_phase[s] = "created"
    /\ hs_listening' = [hs_listening EXCEPT ![s] = TRUE]
    /\ hs_chan' = IF opens_first(s = "worker")
                  THEN hs_send_inner(hs_chan, s, WrapOpen)
                  ELSE hs_chan
    /\ hs_phase' = [hs_phase EXCEPT ![s] = "awaiting"]
    /\ UNCHANGED <<hs_notifier, hs_incoming, hs_opens, hs_early, hs_posted,
                   hs_panicked>>
    /\ UNCHANGED hs_rest

\* the pop completes: the side that did not post Open first posts it now, the
\* transport is returned and open_notifier is dropped
HsOpened(s) ==
    /\ ~hs_panicked
    /\ hs_phase[s] = "awaiting"
    /\ pop_ready(hs_notifier[s])
    /\ hs_chan' = IF opens_first(s = "worker")
                  THEN hs_chan
                  ELSE hs_send_inner(hs_chan, s, WrapOpen)
    /\ hs_notifier' = [hs_notifier EXCEPT ![s] = [alive |-> FALSE, items |-> 0]]
    /\ hs_phase' = [hs_phase EXCEPT ![s] = "done"]
    /\ UNCHANGED <<hs_listening, hs_incoming, hs_opens, hs_early, hs_posted,
                   hs_panicked>>
    /\ UNCHANGED hs_rest

\* the "message" listener of side s is handed the oldest event posted to it
HsOnMessage(s) ==
    /\ ~hs_panicked
    /\ hs_listening[s]
    /\ hs_chan[s] # <<>>
    /\ hs_chan' = [hs_chan EXCEPT ![s] = Tail(@)]
    /\ LET w == Head(hs_chan[s])
       IN CASE w.tag = "Open" ->
                 /\ hs_opens' = [hs_opens EXCEPT ![s] = @ + 1]
                 /\ IF hs_notifier[s].alive
                    THEN /\ hs_notifier' = [hs_notifier EXCEPT ![s].items = @ + 1]
                         /\ UNCHANGED hs_panicked
                    ELSE /\ hs_panicked' = TRUE
                         /\ UNCHANGED hs_notifier
                 /\ UNCHANGED <<hs_incoming, hs_early>>
            [] w.tag = "Message" ->
                 /\ hs_incoming' = [hs_incoming EXCEPT ![s] = Append(@, w.body)]
                 /\ hs_early' = (hs_early \/ hs_opens[s] = 0)
                 /\ UNCHANGED <<hs_opens, hs_notifier, hs_panicked>>
            [] OTHER ->
                 UNCHANGED <<hs_opens, hs_notifier, hs_panicked, hs_incoming, hs_early>>
    /\ UNCHANGED <<hs_phase, hs_listening, hs_posted>>
    /\ UNCHANGED hs_rest

\* Sink::start_send on a transport its creation future has returned
HsStartSend(s, m) ==
    /\ ~hs_panicked
    /\ hs_phase[s] = "done"
    /\ hs_posted[s] < MaxPosts
    /\ hs_chan' = hs_send_inner(hs_chan, s, WrapMessage(m))
    /\ hs_posted' = [hs_posted EXCEPT ![s] = @ + 1]
    /\ UNCHANGED <<hs_phase, hs_listening, hs_notifier, hs_incoming, hs_opens,
                   hs_early, hs_panicked>>
    /\ UNCHANGED hs_rest

HsNext ==
    \/ \E s \in Sides : HsNewInner(s)
    \/ \E s \in Sides : HsOpened(s)
    \/ \E s \in Sides : HsOnMessage(s)
    \/ \E s \in Sides, m \in Messages : HsStartSend(s, m)

\* ------------------------------------------------------------------------
\* Part IX: the channel carrier
\* ------------------------------------------------------------------------

ChSides == {"left", "right"}

Opposite(s) == IF s = "left" THEN "right" ELSE "left"

\* transports(): the side whose receiver ends the channel of the sender of s
uncrossed(s) == s

crossed(s) == Opposite(s)

\* the side whose sender feeds the receiver of s
ch_feeder(s) == CHOOSE x \in ChSides : crossed(x) = s

\* map_error: a SendError that is not "full" is Closed
ch_map_error(is_full) == IF is_full THEN "ChannelIsFull" ELSE "Closed"

ChInit ==
    /\ ch_alive = [s \in ChSides |-> TRUE]
    /\ ch_sender = [s \in ChSides |-> TRUE]
    /\ ch_queue = [s \in ChSides |-> <<>>]
    /\ ch_fused = [s \in ChSides |-> FALSE]
    /\ ch_sent = [s \in ChSides |-> <<>>]
    /\ ch_got = [s \in ChSides |-> <<>>]
    /\ ch_last = [side |-> "left", op |-> "new", res |-> "Ok"]

\* Sink::start_send: the unbounded sender takes the message unless it was
\* closed or the receiver at the other end of its channel is gone
ChStartSend(s, m) ==
    /\ ch_alive[s]
    /\ Len(ch_sent[s]) < MaxPosts
    /\ IF ch_sender[s] /\ ch_alive[crossed(s)]
       THEN /\ ch_queue' = [ch_queue EXCEPT ![crossed(s)] =
                               Append(@, [from |-> s, body |-> m])]
            /\ ch_sent' = [ch_sent EXCEPT ![s] = Append(@, [from |-> s, body |-> m])]
            /\ ch_last' = [side |-> s, op |-> "start_send", res |-> "Ok"]
       ELSE /\ ch_last' = [side |-> s, op |-> "start_send", res |-> ch_map_error(FALSE)]
            /\ UNCHANGED <<ch_queue, ch_sent>>
    /\ UNCHANGED <<ch_alive, ch_sender, ch_fused, ch_got>>
    /\ UNCHANGED ch_rest

\* Sink::poll_close: the sender is disconnected
ChPollClose(s) ==
    /\ ch_alive[s]
    /\ ch_sender' = [ch_sender EXCEPT ![s] = FALSE]
    /\ ch_last' = [side |-> s, op |-> "poll_close", res |-> "Ok"]
    /\ UNCHANGED <<ch_alive, ch_queue, ch_fused, ch_sent, ch_got>>
    /\ UNCHANGED ch_rest

\* the transport is dropped, its sender and its receiver with it
ChDrop(s) ==
    /\ ch_alive[s]
    /\ ch_alive' = [ch_alive EXCEPT ![s] = FALSE]
    /\ ch_sender' = [ch_sender EXCEPT ![s] = FALSE]
    /\ ch_queue' = [ch_queue EXCEPT ![s] = <<>>]
    /\ ch_last' = [side |-> s, op |-> "drop", res |-> "Ok"]
    /\ UNCHANGED <<ch_fused, ch_sent, ch_got>>
    /\ UNCHANGED ch_rest

\* Stream::poll_next: the fused receiver yields the oldest message of its
\* channel, the end once the channel is empty and its sender gone
ChPollNext(s) ==
    /\ ch_alive[s]
    /\ IF ch_fused[s]
       THEN /\ ch_last' = [side |-> s, op |-> "poll_next", res |-> "None"]
            /\ UNCHANGED <<ch_queue, ch_fused, ch_got>>
       ELSE IF ch_queue[s] # <<>>
       THEN /\ ch_queue' = [ch_queue EXCEPT ![s] = Tail(@)]
            /\ ch_got' = [ch_got EXCEPT ![s] = Append(@, Head(ch_queue[s]))]
            /\ ch_last' = [side |-> s, op |-> "poll_next", res |-> "Item"]
            /\ UNCHANGED ch_fused
       ELSE IF ~ch_sender[ch_feeder(s)]
       THEN /\ ch_fused' = [ch_fused EXCEPT ![s] = TRUE]
            /\ ch_last' = [side |-> s, op |-> "poll_next", res |-> "None"]
            /\ UNCHANGED <<ch_queue, ch_got>>
       ELSE /\ ch_last' = [side |-> s, op |-> "poll_next", res |-> "Pending"]
            /\ UNCHANGED <<ch_queue, ch_fused, ch_got>>
    /\ UNCHANGED <<ch_alive, ch_sender, ch_sent>>
    /\ UNCHANGED ch_rest

ChNext ==
    \/ \E s \in ChSides, m \in Messages : ChStartSend(s, m)
    \/ \E s \in ChSides : ChPollClose(s)
    \/ \E s \in ChSides : ChDrop(s)
    \/ \E s \in ChSides : ChPollNext(s)

\* ------------------------------------------------------------------------
\* Part X: the in-memory carrier behind a mutex, used from several threads
\* ------------------------------------------------------------------------

\* receive futures that may be created on the shared carrier
NumMxReceivers == 2

\* sends the shared carrier accepts before the model stops sending
MaxMxSends == 2

\* entries the waker registry may hold before the model stops parking
MaxMxWakers == 3

MxReceivers == 1..NumMxReceivers

\* nobody holds the state lock
MxUnlocked == [by |-> "none", target |-> 0]

\* a wake_next that found no live cell returns at once; one that upgraded the
\* cell of receiver w keeps the state lock until it has marked that cell
mx_wake_next(by_, w) == IF w = 0 THEN MxUnlocked ELSE [by |-> by_, target |-> w]

\* Arc strong counts: the cells some future (or the closure of its drop) holds
MxCells == [r \in MxReceivers |-> mx_rcv[r].cell]

\* whether close sets the flag and calls wake_next in one critical section:
\* State::close of mezzenger-common does, Transport::close of the dummy
\* carrier locks twice
mx_close_atomic(c) == c = "loopback"

MxInit ==
    /\ mx_carrier \in Carriers
    /\ mx_queue = State_new.queue
    /\ mx_wakers = State_new.wakers
    /\ mx_closed = State_new.closed
    /\ mx_rcv = [r \in MxReceivers |-> NoReceive @@ [seen |-> FALSE]]
    /\ mx_notified = {}
    /\ mx_lock = MxUnlocked
    /\ mx_send = [pc |-> "idle", m |-> 0, res |-> "None"]
    /\ mx_close = "idle"
    /\ mx_sent = 0
    /\ mx_got = <<>>

\* Receive::receive: a new receive future
MxReceive(r) ==
    /\ mx_rcv[r].phase = "idle"
    /\ mx_rcv' = [mx_rcv EXCEPT ![r] = Receive_new @@ [seen |-> FALSE]]
    /\ UNCHANGED <<mx_carrier, mx_queue, mx_wakers, mx_closed, mx_notified, mx_lock,
                   mx_send, mx_close, mx_sent, mx_got>>
    /\ UNCHANGED mx_rest

\* Receive::poll: the whole poll runs under the state lock
MxPoll(r) ==
    /\ mx_rcv[r].phase = "live"
    /\ mx_lock = MxUnlocked
    /\ mx_notified' = mx_notified \ {r}
    /\ IF mx_rcv[r].terminated
       THEN UNCHANGED <<mx_queue, mx_wakers, mx_rcv, mx_got>>
       ELSE IF mx_queue # <<>>
       THEN /\ mx_queue' = pop_back_rest(mx_queue)
            /\ mx_got' = Append(mx_got, pop_back_item(mx_queue))
            /\ mx_rcv' = [mx_rcv EXCEPT ![r].terminated = TRUE, ![r].cell = FALSE,
                                        ![r].woken = FALSE, ![r].out = "Ok"]
            /\ UNCHANGED mx_wakers
       ELSE IF mx_closed
       THEN /\ mx_rcv' = [mx_rcv EXCEPT ![r].terminated = TRUE, ![r].out = "Closed"]
            /\ mx_got' = Append(mx_got, 0)
            /\ UNCHANGED <<mx_queue, mx_wakers>>
       ELSE /\ Len(mx_wakers) < MaxMxWakers
            /\ mx_rcv' = [mx_rcv EXCEPT ![r].cell = TRUE, ![r].woken = FALSE,
                                        ![r].out = "Pending"]
            /\ mx_wakers' = register(mx_wakers, r)
            /\ UNCHANGED <<mx_queue, mx_got>>
    /\ UNCHANGED <<mx_carrier, mx_closed, mx_lock, mx_send, mx_close, mx_sent>>
    /\ UNCHANGED mx_rest

\* Drop for Receive, first step: self.waker.take() and the read of woken under
\* the lock of the waker cell; the closure still owns the Arc
MxDropRead(r) ==
    /\ mx_rcv[r].phase = "live"
    /\ mx_rcv' = [mx_rcv EXCEPT ![r].phase = "reading",
                                ![r].seen = mx_rcv[r].cell /\ mx_rcv[r].woken]
    /\ mx_notified' = mx_notified \ {r}
    /\ UNCHANGED <<mx_carrier, mx_queue, mx_wakers, mx_closed, mx_lock,
                   mx_send, mx_close, mx_sent, mx_got>>
    /\ UNCHANGED mx_rest

\* Drop for Receive, second step: the closure returns and the Arc goes
MxDropRelease(r) ==
    /\ mx_rcv[r].phase = "reading"
    /\ mx_rcv' = [mx_rcv EXCEPT ![r].cell = FALSE,
                                ![r].phase = IF mx_rcv[r].seen THEN "passing"
                                             ELSE "dropped"]
    /\ UNCHANGED <<mx_carrier, mx_queue, mx_wakers, mx_closed, mx_notified, mx_lock,
                   mx_send, mx_close, mx_sent, mx_got>>
    /\ UNCHANGED mx_rest

\* Drop for Receive, last step: self.state.lock().wake_next()
MxDropWake(r) ==
    /\ mx_rcv[r].phase = "passing"
    /\ mx_lock = MxUnlocked
    /\ mx_lock' = mx_wake_next("drop", wake_next_target(mx_wakers, MxCells))
    /\ mx_wakers' = wake_next_wakers(mx_wakers, MxCells)
    /\ mx_rcv' = [mx_rcv EXCEPT ![r].phase = "dropped"]
    /\ UNCHANGED <<mx_carrier, mx_queue, mx_closed, mx_notified,
                   mx_send, mx_close, mx_sent, mx_got>>
    /\ UNCHANGED mx_rest

\* State::wake_next after the upgrade: waker.lock(), woken = true,
\* wake_by_ref, and the state lock is released
MxWakeMark ==
    /\ mx_lock # MxUnlocked
    /\ mx_rcv' = mark_woken(mx_rcv, mx_lock.target)
    /\ mx_notified' = wake_by_ref(mx_notified, mx_lock.target)
    /\ mx_lock' = MxUnlocked
    /\ UNCHANGED <<mx_carrier, mx_queue, mx_wakers, mx_closed,
                   mx_send, mx_close, mx_sent, mx_got>>
    /\ UNCHANGED mx_rest

\* Sender::send (loopback) and Send::poll (dummy), first step:
\* transport.is_closed() locks, reads the flag and unlocks
MxSendCheck(m) ==
    /\ mx_send.pc = "idle"
    /\ mx_lock = MxUnlocked
    /\ mx_sent < MaxMxSends
    /\ IF send_rejected(mx_closed)
       THEN mx_send' = [pc |-> "idle", m |-> 0, res |-> "Closed"]
       ELSE mx_send' = [pc |-> "checked", m |-> m, res |-> "None"]
    /\ UNCHANGED <<mx_carrier, mx_queue, mx_wakers, mx_closed, mx_rcv, mx_notified,
                   mx_lock, mx_close, mx_sent, mx_got>>
    /\ UNCHANGED mx_rest

\* second step: state.lock() again and the push_front
MxSendPush ==
    /\ mx_send.pc = "checked"
    /\ mx_lock = MxUnlocked
    /\ mx_queue' = message(mx_queue, mx_send.m)
    /\ mx_sent' = mx_sent + 1
    /\ IF send_wakes(mx_carrier)
       THEN mx_send' = [mx_send EXCEPT !.pc = "pushed"]
       ELSE mx_send' = [pc |-> "idle", m |-> 0, res |-> "Ok"]
    /\ UNCHANGED <<mx_carrier, mx_wakers, mx_closed, mx_rcv, mx_notified,
                   mx_lock, mx_close, mx_got>>
    /\ UNCHANGED mx_rest

\* Send::poll of the dummy carrier, last step: self.transport.wake_next()
MxSendWake ==
    /\ mx_send.pc = "pushed"
    /\ mx_lock = MxUnlocked
    /\ mx_lock' = mx_wake_next("send", wake_next_target(mx_wakers, MxCells))
    /\ mx_wakers' = wake_next_wakers(mx_wakers, MxCells)
    /\ mx_send' = [pc |-> "idle", m |-> 0, res |-> "Ok"]
    /\ UNCHANGED <<mx_carrier, mx_queue, mx_closed, mx_rcv, mx_notified,
                   mx_close, mx_sent, mx_got>>
    /\ UNCHANGED mx_rest

\* Close::poll of a fresh close future: closed = true, and with State::close
\* the wake_next in the same critical section
MxClose ==
    /\ mx_close = "idle"
    /\ mx_lock = MxUnlocked
    /\ mx_closed' = TRUE
    /\ IF mx_close_atomic(mx_carrier)
       THEN /\ mx_lock' = mx_wake_next("close", wake_next_target(mx_wakers, MxCells))
            /\ mx_wakers' = wake_next_wakers(mx_wakers, MxCells)
            /\ mx_close' = "done"
       ELSE /\ mx_close' = "marked"
            /\ UNCHANGED <<mx_lock, mx_wakers>>
    /\ UNCHANGED <<mx_carrier, mx_queue, mx_rcv, mx_notified, mx_send, mx_sent, mx_got>>
    /\ UNCHANGED mx_rest

\* Transport::close of the dummy carrier, second step: self.wake_next()
MxCloseWake ==
    /\ mx_close = "marked"
    /\ mx_lock = MxUnlocked
    /\ mx_lock' = mx_wake_next("close", wake_next_target(mx_wakers, MxCells))
    /\ mx_wakers' = wake_next_wakers(mx_wakers, MxCells)
    /\ mx_close' = "done"
    /\ UNCHANGED <<mx_carrier, mx_queue, mx_closed, mx_rcv, mx_notified,
                   mx_send, mx_sent, mx_got>>
    /\ UNCHANGED mx_rest

MxNext ==
    \/ \E r \in MxReceivers : MxReceive(r)
    \/ \E r \in MxReceivers : MxPoll(r)
    \/ \E r \in MxReceivers : MxDropRead(r)
    \/ \E r \in MxReceivers : MxDropRelease(r)
    \/ \E r \in MxReceivers : MxDropWake(r)
    \/ MxWakeMark
    \/ \E m \in 1..MaxMxSends : MxSendCheck(m)
    \/ MxSendPush
    \/ MxSendWake
    \/ MxClose
    \/ MxCloseWake

\* ------------------------------------------------------------------------
\* Part XI: the Stream facade over the in-memory carrier
\* ------------------------------------------------------------------------

\* the receive future a poll_next creates: the first one not yet used
FcFresh == CHOOSE r \in Receivers :
              /\ rcv[r].phase = "idle"
              /\ \A x \in Receivers : rcv[x].phase = "idle" => r <= x

\* the task that consumes the stream is to be polled: it was just spawned, or
\* a waker cloned from its context has fired
FcScheduled == fc_last = "Unpolled" \/ fc_made \cap notified # {}

\* Drop for Receive: whether the drop goes on to wake_next
fc_drop_passes_on(f) == f.cell /\ f.woken

FcInit ==
    /\ fc_terminated = FALSE
    /\ fc_last = "Unpolled"
    /\ fc_made = {}

\* Stream::poll_next: Box::pin(self.receiver.receive()).poll_unpin(cx), the
\* match on what it returned, and the drop of the boxed future at the end
FcPollNext ==
    /\ \E r \in Receivers : rcv[r].phase = "idle"
    /\ LET r == FcFresh
           created == Receive_new
           polled ==
               IF queue # <<>>
               THEN [created EXCEPT !.terminated = TRUE, !.cell = FALSE, !.out = "Ok"]
               ELSE IF closed
               THEN [created EXCEPT !.terminated = TRUE, !.out = "Closed"]
               ELSE [created EXCEPT !.cell = TRUE, !.woken = FALSE, !.out = "Pending"]
           registry == IF polled.out = "Pending" THEN register(wakers, r) ELSE wakers
           gone == [polled EXCEPT !.phase = "dropped", !.cell = FALSE, !.woken = FALSE]
           after == [rcv EXCEPT ![r] = gone]
           cells == [x \in Receivers |-> after[x].cell]
           w == wake_next_target(registry, cells)
       IN /\ polled.out = "Pending" => Len(wakers) < MaxWakers
          /\ queue' = IF polled.out = "Ok" THEN pop_back_rest(queue) ELSE queue
          /\ received' = IF polled.out = "Ok"
                         THEN Append(received, pop_back_item(queue)) ELSE received
          /\ IF fc_drop_passes_on(polled)
             THEN /\ wakers' = wake_next_wakers(registry, cells)
                  /\ rcv' = mark_woken(after, w)
                  /\ notified' = wake_by_ref(notified \ (fc_made \cup {r}), w)
             ELSE /\ wakers' = registry
                  /\ rcv' = after
                  /\ notified' = notified \ (fc_made \cup {r})
          /\ fc_made' = fc_made \cup {r}
          /\ fc_terminated' = (fc_terminated \/ polled.out = "Closed")
          /\ fc_last' = CASE polled.out = "Ok" -> "Some"
                          [] polled.out = "Closed" -> "None"
                          [] OTHER -> "Pending"
    /\ UNCHANGED <<carrier, closed, send_result, sent>>
    /\ UNCHANGED fc_rest

FcNext ==
    \/ FcPollNext
    \/ \E m \in Messages : Send(m)
    \/ Close

\* ------------------------------------------------------------------------
\* Part XII: the calls on the TCP framer and what they return
\* ------------------------------------------------------------------------

\* the items sent here: one encoding of each length
TlPayloads == {p \in Payloads : \A i \in 1..Len(p) : p[i] = 1}

\* what a call has returned
TlReturn(s, op_, res_) == [side |-> s, op |-> op_, res |-> res_]

TlInit ==
    /\ tl_last = TlReturn("a", "new", "Ok")
    /\ tl_closed = [s \in Ends |-> FALSE]

\* Sink::start_send
TlStartSend(s, p) ==
    /\ StartSendStep(s, p, TRUE)
    /\ tl_last' = TlReturn(s, "start_send", start_send_result(s, p, TRUE))
    /\ UNCHANGED tl_closed
    /\ UNCHANGED tl_rest

\* Sink::poll_flush
TlPollFlush(s, n) ==
    /\ PollFlushStep(s, n)
    /\ tl_last' = TlReturn(s, "poll_flush", poll_flush_result(s))
    /\ tl_closed' = [tl_closed EXCEPT ![s] = @ \/ poll_flush_result(s) = "Closed"]
    /\ UNCHANGED tl_rest

\* Sink::poll_close
TlPollClose(s) ==
    /\ PollCloseStep(s)
    /\ tl_last' = TlReturn(s, "poll_close", poll_close_result(s))
    /\ tl_closed' = [tl_closed EXCEPT ![s] = @ \/ poll_close_result(s) = "Closed"]
    /\ UNCHANGED tl_rest

\* Stream::poll_next
TlPollNext(s) ==
    /\ \E out \in poll_next(s) :
          /\ PollNextStep(s, out)
          /\ tl_last' = TlReturn(s, "poll_next", out.res)
    /\ UNCHANGED tl_closed
    /\ UNCHANGED tl_rest

\* the connection is reset under both ends
TlConnectionReset ==
    /\ ConnectionResetStep
    /\ UNCHANGED <<tl_last, tl_closed>>
    /\ UNCHANGED tl_rest

TlNext ==
    \/ \E s \in Ends, p \in TlPayloads : TlStartSend(s, p)
    \/ \E s \in Ends, n \in 1..(MaxFrames * (MaxSize + 5)) : TlPollFlush(s, n)
    \/ \E s \in Ends : TlPollClose(s)
    \/ \E s \in Ends : TlPollNext(s)
    \/ TlConnectionReset

\* ------------------------------------------------------------------------
\* Part XIII: the locks of the in-memory carrier behind a mutex
\* ------------------------------------------------------------------------

\* the thread that sends and the thread that closes; thread r, a receiver,
\* owns the receive future r
LkSender == NumMxReceivers + 1

LkCloser == NumMxReceivers + 2

LkThreads == MxReceivers \cup {LkSender, LkCloser}

\* positions at which a thread has called state.lock() and not got it yet
LkWantsState == {"poll_wait", "drop_wait", "check_wait", "push_wait", "close_wait",
                 "wake_wait"}

\* positions at which a thread has called lock() on a waker cell
LkWantsCell == {"poll_cell", "drop_cell", "wake_cell"}

\* where a thread goes on after its wake_next
lk_after_wake(t) == IF t = LkCloser THEN "done" ELSE "idle"

\* the closure of Drop for Receive, |waker| waker.lock().woken: the guard is
\* a temporary of the closure body and is gone, with the Arc, before
\* state.lock() is called
drop_keeps_cell == FALSE

drop_releases_cell_first == TRUE

LkInit ==
    /\ lk_carrier \in Carriers
    /\ lk_pc = [t \in LkThreads |-> "idle"]
    /\ lk_state_owner = 0
    /\ lk_cell_owner = [r \in MxReceivers |-> 0]
    /\ lk_target = [t \in LkThreads |-> 0]
    /\ lk_rcv = [r \in MxReceivers |-> NoReceive]
    /\ lk_wakers = State_new.wakers
    /\ lk_queue = 0
    /\ lk_closed = State_new.closed
    /\ lk_sent = 0

\* the Arcs alive: the cells a future or the closure of its drop holds
LkCells == [r \in MxReceivers |-> lk_rcv[r].cell]

\* wake_next with the state lock held by thread t, up to the lock of the cell:
\* the dead entries are popped; if a cell was upgraded the thread goes on to
\* lock it, keeping the state lock, else the state lock is released
LkWakeNext(t) ==
    LET w == wake_next_target(lk_wakers, LkCells)
    IN /\ lk_wakers' = wake_next_wakers(lk_wakers, LkCells)
       /\ lk_target' = [lk_target EXCEPT ![t] = w]
       /\ IF w = 0
          THEN /\ lk_state_owner' = 0
               /\ lk_pc' = [lk_pc EXCEPT ![t] = lk_after_wake(t)]
               /\ lk_cell_owner' = [r \in MxReceivers |->
                                       IF lk_cell_owner[r] = t THEN 0
                                       ELSE lk_cell_owner[r]]
               /\ lk_rcv' = [r \in MxReceivers |->
                                IF r = t THEN NoReceive ELSE lk_rcv[r]]
          ELSE /\ lk_state_owner' = t
               /\ lk_pc' = [lk_pc EXCEPT ![t] = "wake_cell"]
               /\ UNCHANGED <<lk_cell_owner, lk_rcv>>

\* Receive::receive: thread r creates its receive future
LkReceive(r) ==
    /\ lk_pc[r] = "idle"
    /\ lk_rcv[r].phase = "idle"
    /\ lk_rcv' = [lk_rcv EXCEPT ![r] = Receive_new]
    /\ UNCHANGED <<lk_carrier, lk_pc, lk_state_owner, lk_cell_owner, lk_target,
                   lk_wakers, lk_queue, lk_closed, lk_sent>>
    /\ UNCHANGED lk_rest

\* Receive::poll of a future that is not terminated: it calls state.lock()
LkPollCall(r) ==
    /\ lk_pc[r] = "idle"
    /\ lk_rcv[r].phase = "live"
    /\ ~lk_rcv[r].terminated
    /\ Len(lk_wakers) < MaxMxWakers
    /\ lk_pc' = [lk_pc EXCEPT ![r] = "poll_wait"]
    /\ UNCHANGED <<lk_carrier, lk_state_owner, lk_cell_owner, lk_target, lk_rcv,
                   lk_wakers, lk_queue, lk_closed, lk_sent>>
    /\ UNCHANGED lk_rest

\* Receive::poll with the state lock: an item or Closed ends the poll and the
\* lock is released; a future that parks for the first time makes its cell
\* and registers it; one that has a cell goes on to lock it
LkPollLocked(r) ==
    /\ lk_pc[r] = "poll_wait"
    /\ lk_state_owner = 0
    /\ IF lk_queue > 0
       THEN /\ lk_queue' = lk_queue - 1
            /\ lk_rcv' = [lk_rcv EXCEPT ![r].terminated = TRUE, ![r].cell = FALSE,
                                        ![r].woken = FALSE, ![r].out = "Ok"]
            /\ lk_pc' = [lk_pc EXCEPT ![r] = "idle"]
            /\ UNCHANGED <<lk_state_owner, lk_wakers>>
       ELSE IF lk_closed
       THEN /\ lk_rcv' = [lk_rcv EXCEPT ![r].terminated = TRUE, ![r].out = "Closed"]
            /\ lk_pc' = [lk_pc EXCEPT ![r] = "idle"]
            /\ UNCHANGED <<lk_state_owner, lk_wakers, lk_queue>>
       ELSE IF lk_rcv[r].cell
       THEN /\ lk_state_owner' = r
            /\ lk_pc' = [lk_pc EXCEPT ![r] = "poll_cell"]
            /\ UNCHANGED <<lk_rcv, lk_wakers, lk_queue>>
       ELSE /\ lk_rcv' = [lk_rcv EXCEPT ![r].cell = TRUE, ![r].woken = FALSE,
                                        ![r].out = "Pending"]
            /\ lk_wakers' = register(lk_wakers, r)
            /\ lk_pc' = [lk_pc EXCEPT ![r] = "idle"]
            /\ UNCHANGED <<lk_state_owner, lk_queue>>
    /\ UNCHANGED <<lk_carrier, lk_cell_owner, lk_target, lk_closed, lk_sent>>
    /\ UNCHANGED lk_rest

\* Receive::poll with the state lock and the lock of its cell: woken is
\* reset, the cell registered again, both locks released
LkPollCell(r) ==
    /\ lk_pc[r] = "poll_cell"
    /\ lk_cell_owner[r] = 0
    /\ lk_rcv' = [lk_rcv EXCEPT ![r].woken = FALSE, ![r].out = "Pending"]
    /\ lk_wakers' = register(lk_wakers, r)
    /\ lk_state_owner' = 0
    /\ lk_pc' = [lk_pc EXCEPT ![r] = "idle"]
    /\ UNCHANGED <<lk_carrier, lk_cell_owner, lk_target, lk_queue, lk_closed, lk_sent>>
    /\ UNCHANGED lk_rest

\* Drop for Receive: self.waker.take(); a future without a cell is gone, one
\* with a cell calls lock() on it
LkDropCall(r) ==
    /\ lk_pc[r] = "idle"
    /\ lk_rcv[r].phase = "live"
    /\ IF lk_rcv[r].cell
       THEN /\ lk_pc' = [lk_pc EXCEPT ![r] = "drop_cell"]
            /\ UNCHANGED lk_rcv
       ELSE /\ lk_rcv' = [lk_rcv EXCEPT ![r] = NoReceive]
            /\ UNCHANGED lk_pc
    /\ UNCHANGED <<lk_carrier, lk_state_owner, lk_cell_owner, lk_target,
                   lk_wakers, lk_queue, lk_closed, lk_sent>>
    /\ UNCHANGED lk_rest

\* the closure of the drop gets the lock of the cell
LkDropRead(r) ==
    /\ lk_pc[r] = "drop_cell"
    /\ lk_cell_owner[r] = 0
    /\ lk_cell_owner' = [lk_cell_owner EXCEPT ![r] = r]
    /\ lk_pc' = [lk_pc EXCEPT ![r] = "drop_reading"]
    /\ UNCHANGED <<lk_carrier, lk_state_owner, lk_target, lk_rcv,
                   lk_wakers, lk_queue, lk_closed, lk_sent>>
    /\ UNCHANGED lk_rest

\* the closure returns woken: guard and Arc go; a woken future calls
\* state.lock() for its wake_next, another is gone
LkDropRelease(r) ==
    /\ lk_pc[r] = "drop_reading"
    /\ IF drop_releases_cell_first
       THEN /\ lk_cell_owner' = [lk_cell_owner EXCEPT ![r] = 0]
            /\ lk_rcv' = [lk_rcv EXCEPT ![r] =
                             IF lk_rcv[r].woken THEN [@ EXCEPT !.cell = FALSE]
                             ELSE NoReceive]
       ELSE /\ lk_cell_owner' = [lk_cell_owner EXCEPT ![r] =
                                    IF lk_rcv[r].woken THEN r ELSE 0]
            /\ lk_rcv' = [lk_rcv EXCEPT ![r] =
                             IF lk_rcv[r].woken THEN @ ELSE NoReceive]
    /\ lk_pc' = [lk_pc EXCEPT ![r] = IF lk_rcv[r].woken THEN "drop_wait" ELSE "idle"]
    /\ UNCHANGED <<lk_carrier, lk_state_owner, lk_target,
                   lk_wakers, lk_queue, lk_closed, lk_sent>>
    /\ UNCHANGED lk_rest

\* self.state.lock().wake_next() of the drop (self.transport.wake_next() on
\* the dummy carrier) gets the state lock
LkDropWake(r) ==
    /\ lk_pc[r] = "drop_wait"
    /\ lk_state_owner = 0
    /\ LkWakeNext(r)
    /\ UNCHANGED <<lk_carrier, lk_queue, lk_closed, lk_sent>>
    /\ UNCHANGED lk_rest

\* wake_next with the state lock gets the lock of the upgraded cell: woken =
\* true, wake_by_ref, and both locks are released
LkWakeMark(t) ==
    /\ lk_pc[t] = "wake_cell"
    /\ lk_cell_owner[lk_target[t]] = 0
    /\ lk_rcv' = [r \in MxReceivers |->
                     IF r = t THEN NoReceive
                     ELSE IF r = lk_target[t] /\ lk_rcv[r].cell
                     THEN [lk_rcv[r] EXCEPT !.woken = TRUE]
                     ELSE lk_rcv[r]]
    /\ lk_cell_owner' = [r \in MxReceivers |->
                            IF lk_cell_owner[r] = t THEN 0 ELSE lk_cell_owner[r]]
    /\ lk_state_owner' = 0
    /\ lk_target' = [lk_target EXCEPT ![t] = 0]
    /\ lk_pc' = [lk_pc EXCEPT ![t] = lk_after_wake(t)]
    /\ UNCHANGED <<lk_carrier, lk_wakers, lk_queue, lk_closed, lk_sent>>
    /\ UNCHANGED lk_rest

\* Sender::send, Send::poll: transport.is_closed() calls state.lock()
LkSendCall ==
    /\ lk_pc[LkSender] = "idle"
    /\ lk_sent < MaxMxSends
    /\ lk_pc' = [lk_pc EXCEPT ![LkSender] = "check_wait"]
    /\ UNCHANGED <<lk_carrier, lk_state_owner, lk_cell_owner, lk_target, lk_rcv,
                   lk_wakers, lk_queue, lk_closed, lk_sent>>
    /\ UNCHANGED lk_rest

\* is_closed with the state lock: the flag is read and the lock released; on
\* an open carrier the send calls state.lock() again
LkSendCheck ==
    /\ lk_pc[LkSender] = "check_wait"
    /\ lk_state_owner = 0
    /\ lk_pc' = [lk_pc EXCEPT ![LkSender] =
                    IF send_rejected(lk_closed) THEN "idle" ELSE "push_wait"]
    /\ UNCHANGED <<lk_carrier, lk_state_owner, lk_cell_owner, lk_target, lk_rcv,
                   lk_wakers, lk_queue, lk_closed, lk_sent>>
    /\ UNCHANGED lk_rest

\* the push with the state lock, which is released; Send::poll of the dummy
\* carrier goes on to its wake_next
LkSendPush ==
    /\ lk_pc[LkSender] = "push_wait"
    /\ lk_state_owner = 0
    /\ lk_queue' = lk_queue + 1
    /\ lk_sent' = lk_sent + 1
    /\ lk_pc' = [lk_pc EXCEPT ![LkSender] =
                    IF send_wakes(lk_carrier) THEN "wake_wait" ELSE "idle"]
    /\ UNCHANGED <<lk_carrier, lk_state_owner, lk_cell_owner, lk_target, lk_rcv,
                   lk_wakers, lk_closed>>
    /\ UNCHANGED lk_rest

\* Transport::wake_next of the dummy carrier, called by Send::poll or by
\* Transport::close, gets the state lock
LkWake(t) ==
    /\ lk_pc[t] = "wake_wait"
    /\ lk_state_owner = 0
    /\ LkWakeNext(t)
    /\ UNCHANGED <<lk_carrier, lk_queue, lk_closed, lk_sent>>
    /\ UNCHANGED lk_rest

\* Close::poll calls state.lock()
LkCloseCall ==
    /\ lk_pc[LkCloser] = "idle"
    /\ lk_pc' = [lk_pc EXCEPT ![LkCloser] = "close_wait"]
    /\ UNCHANGED <<lk_carrier, lk_state_owner, lk_cell_owner, lk_target, lk_rcv,
                   lk_wakers, lk_queue, lk_closed, lk_sent>>
    /\ UNCHANGED lk_rest

\* the close with the state lock: State::close sets the flag and runs
\* wake_next under the same lock; Transport::close of the dummy carrier sets
\* the flag, releases the lock and calls its wake_next
LkCloseLocked ==
    /\ lk_pc[LkCloser] = "close_wait"
    /\ lk_state_owner = 0
    /\ lk_closed' = TRUE
    /\ IF mx_close_atomic(lk_carrier)
       THEN LkWakeNext(LkCloser)
       ELSE /\ lk_pc' = [lk_pc EXCEPT ![LkCloser] = "wake_wait"]
            /\ UNCHANGED <<lk_state_owner, lk_cell_owner, lk_target, lk_rcv, lk_wakers>>
    /\ UNCHANGED <<lk_carrier, lk_queue, lk_sent>>
    /\ UNCHANGED lk_rest

LkNext ==
    \/ \E r \in MxReceivers : LkReceive(r)
    \/ \E r \in MxReceivers : LkPollCall(r)
    \/ \E r \in MxReceivers : LkPollLocked(r)
    \/ \E r \in MxReceivers : LkPollCell(r)
    \/ \E r \in MxReceivers : LkDropCall(r)
    \/ \E r \in MxReceivers : LkDropRead(r)
    \/ \E r \in MxReceivers : LkDropRelease(r)
    \/ \E r \in MxReceivers : LkDropWake(r)
    \/ \E t \in LkThreads : LkWakeMark(t)
    \/ LkSendCall
    \/ LkSendCheck
    \/ LkSendPush
    \/ \E t \in {LkSender, LkCloser} : LkWake(t)
    \/ LkCloseCall
    \/ LkCloseLocked

\* ------------------------------------------------------------------------
\* Specifications
\* ------------------------------------------------------------------------

Init == MemInit /\ WkInit /\ TcpInit /\ UtInit /\ WsInit("native") /\ StInit /\ SkInit
        /\ UdInit /\ ud_build = "debug" /\ HsInit /\ ChInit
        /\ MxInit /\ mx_carrier = "loopback" /\ FcInit /\ TlInit /\ LkInit /\ lk_carrier = "loopback"

\* the in-memory carrier
Next == MemNext

\* the two Web Worker transports after construction
WorkerInit == Init /\ carrier = "loopback"

\* one TCP connection and the framers at its two ends
FramerInit == Init /\ carrier = "loopback"

FramerSpec == FramerInit /\ [][TcpNext]_vars

\* Numbered on the sending side, LatestOnly on the receiving side of an
\* unordered transport
UtilsInit == Init /\ carrier = "loopback"

UtilsSpec == UtilsInit /\ [][UtNext]_vars

\* one WebSocket connection under each of the wrappers
WebSocketInit ==
    /\ MemInit /\ WkInit /\ TcpInit /\ UtInit /\ StInit /\ SkInit
    /\ UdInit /\ ud_build = "debug" /\ HsInit /\ ChInit
    /\ MxInit /\ mx_carrier = "loopback" /\ FcInit /\ TlInit /\ LkInit /\ lk_carrier = "loopback"
    /\ carrier = "loopback"
    /\ \E impl \in WsImpls : WsInit(impl)

WebSocketSpec == WebSocketInit /\ [][WsNext]_vars

\* the receiving task polls when it is scheduled
WebSocketFairSpec == WebSocketSpec /\ WF_vars(WsPollNext)

\* a Stream over a receiver and the task that consumes it
StreamInit == Init /\ carrier = "loopback"

StreamSpec == StreamInit /\ [][StNext]_vars

\* the consuming task polls when it is scheduled
StreamFairSpec == StreamSpec /\ WF_vars(StPollNext)

\* a Sink over a sender
SinkInit == Init /\ carrier = "loopback"

SinkSpec == SinkInit /\ [][SkNext]_vars

\* the sending side of one UDP transport, in a debug and in a release build
UdpInit ==
    /\ MemInit /\ WkInit /\ TcpInit /\ UtInit /\ StInit /\ SkInit
    /\ WsInit("native")
    /\ UdInit /\ HsInit /\ ChInit
    /\ MxInit /\ mx_carrier = "loopback" /\ FcInit /\ TlInit /\ LkInit /\ lk_carrier = "loopback"
    /\ carrier = "loopback"

UdpSpec == UdpInit /\ [][UdNext]_vars

\* the page and the worker create their transports
HandshakeInit == Init /\ carrier = "loopback"

HandshakeSpec == HandshakeInit /\ [][HsNext]_vars

\* both creation futures are polled, and the event loops dispatch what was
\* posted
HandshakeFairSpec ==
    /\ HandshakeSpec
    /\ \A s \in Sides :
          WF_vars(HsNewInner(s)) /\ WF_vars(HsOpened(s)) /\ WF_vars(HsOnMessage(s))

\* the pair of channel transports
ChannelInit == Init /\ carrier = "loopback"

ChannelSpec == ChannelInit /\ [][ChNext]_vars

\* a side that is not dropped goes on polling its stream
ChannelFairSpec == ChannelSpec /\ \A s \in ChSides : WF_vars(ChPollNext(s))

\* the mutex variant of both in-memory transports, with receive futures, a
\* sending thread and a closing thread
MutexInit ==
    /\ MemInit /\ WkInit /\ TcpInit /\ UtInit /\ StInit /\ SkInit
    /\ WsInit("native")
    /\ UdInit /\ ud_build = "debug" /\ HsInit /\ ChInit
    /\ MxInit /\ FcInit /\ TlInit /\ LkInit /\ lk_carrier = "loopback"
    /\ carrier = "loopback"

MutexSpec == MutexInit /\ [][MxNext]_vars

\* a Stream over either in-memory transport, the task that consumes it, and
\* the sends and the close of the transport
FacadeCarrierSpec == Init /\ [][FcNext]_vars

\* the consuming task polls the stream when its waker has fired
FacadeCarrierFairSpec == FacadeCarrierSpec /\ WF_vars(FcScheduled /\ FcPollNext)

\* one TCP connection, the framers at its two ends, and what their calls return
FramerCallsSpec == FramerInit /\ [][TlNext]_vars

\* the threads of the mutex variant of both in-memory transports and the
\* locks they take
LockInit ==
    /\ MemInit /\ WkInit /\ TcpInit /\ UtInit /\ StInit /\ SkInit
    /\ WsInit("native")
    /\ UdInit /\ ud_build = "debug" /\ HsInit /\ ChInit
    /\ MxInit /\ mx_carrier = "loopback" /\ FcInit /\ TlInit /\ LkInit
    /\ carrier = "loopback"

LockSpec == LockInit /\ [][LkNext]_vars

WorkerSpec == WorkerInit /\ [][WkNext]_vars

Spec == Init /\ [][Next]_vars

\* the scheduling the claims about wake-ups assume: an executor polls a receive
\* future whose waker has fired, and a completed receive future is dropped
PollWoken(r) == r \in notified /\ Poll(r)

DropDone(r) == rcv[r].terminated /\ DropReceive(r)

FairSpec ==
    /\ Init
    /\ [][Next]_vars
    /\ \A r \in Receivers : WF_vars(PollWoken(r)) /\ WF_vars(DropDone(r))

\* ------------------------------------------------------------------------
\* Properties of the in-memory carrier
\* ------------------------------------------------------------------------

RECURSIVE Reverse(_)
Reverse(s) == IF s = <<>> THEN <<>> ELSE Append(Reverse(Tail(s)), Head(s))

IsPrefix(a, b) == Len(a) <= Len(b) /\ \A k \in 1..Len(a) : a[k] = b[k]

\* r holds a waker cell and has not completed
Waiting(r) == rcv[r].phase = "live" /\ rcv[r].cell /\ ~rcv[r].terminated

\* r waits and no wake-up is on its way to it
Parked(r) == Waiting(r) /\ ~rcv[r].woken

\* r waits and has been marked woken
Woken(r) == Waiting(r) /\ rcv[r].woken

Min(a, b) == IF a <= b THEN a ELSE b

\* C1: on an open carrier the k-th receive to complete returns the k-th message
\* send accepted: what has been received is the front part of what was sent.
C1_ReceivedInSendOrder == ~closed => IsPrefix(received, sent)

C1_Witness ==
    /\ ~closed
    /\ Len(received) = 2
    /\ received[1] # received[2]

\* C2: once closed, no send is accepted (it returns Closed and the queue does not
\* grow); what was accepted before is still handed out in send order; and a
\* receive returns Closed only on an empty queue.
C2_ClosedSendAndDrain ==
    /\ [](closed => received \o Reverse(queue) = sent)
    /\ [][closed => /\ sent' = sent
                    /\ send_result' \in {send_result, "Closed"}
                    /\ queue' \in {queue, pop_back_rest(queue)}]_vars
    /\ [][\A r \in Receivers :
            rcv[r].out # "Closed" /\ rcv'[r].out = "Closed"
                => closed /\ queue = <<>>]_vars

C2_Witness ==
    /\ closed
    /\ send_result = "Closed"
    /\ Len(received) = 2
    /\ \E r \in Receivers : rcv[r].out = "Closed"

\* C3: every accepted item is either still queued or was returned by exactly one
\* receive future: returned plus queued equals accepted, item for item.
C3_ExactlyOnce ==
    /\ Len(received) + Len(queue) = Len(sent)
    /\ Cardinality({r \in Receivers : rcv[r].out = "Ok"}) = Len(received)
    /\ \A m \in Messages :
         Cardinality({k \in 1..Len(received) : received[k] = m})
           + Cardinality({k \in 1..Len(queue) : queue[k] = m})
         = Cardinality({k \in 1..Len(sent) : sent[k] = m})

C3_Witness ==
    /\ Len(received) = 2
    /\ \E a, b, c \in Receivers :
         /\ a # b
         /\ rcv[a].out = "Ok" /\ rcv[b].out = "Ok"
         /\ rcv[a].phase = "live" /\ rcv[b].phase = "live"
         /\ Parked(c)

\* every queued item has a woken receiver on its way, as far as receivers wait
WakesCoverItems ==
    Cardinality({r \in Receivers : Woken(r)})
        >= Min(Len(queue), Cardinality({r \in Receivers : Waiting(r)}))

\* C4: dropping a receive future that was woken and not polled since passes the
\* wake-up on, so that no queued item is left with only unwoken receivers.
C4_DropPassesWake ==
    [][\A x \in Receivers :
         (Woken(x) /\ rcv'[x].phase = "dropped" /\ WakesCoverItems)
            => WakesCoverItems']_vars

\* C5: a send that enqueues a message wakes a parked receiver when there is one.
C5_SendWakes ==
    [][(Len(sent') = Len(sent) + 1 /\ \E r \in Receivers : Parked(r))
          => \E r \in Receivers :
                Parked(r) /\ rcv'[r].woken /\ r \in notified']_vars

RECURSIVE OldestParked(_)
\* the receiver that parked first among those still parked: entries are pushed
\* at the front, so it is the hindmost entry of a parked receiver (0: none)
OldestParked(ws) ==
    IF ws = <<>> THEN 0
    ELSE IF OldestParked(Tail(ws)) # 0 THEN OldestParked(Tail(ws))
    ELSE IF Parked(Head(ws)) THEN Head(ws)
    ELSE 0

\* C6: the receiver wake_next marks woken is the one that parked first.
C6_FifoWake ==
    [][\A r \in Receivers :
         (Parked(r) /\ rcv'[r].woken) => r = OldestParked(wakers)]_vars

\* C7: on a closed carrier every waiting receiver eventually completes (or is
\* dropped), when woken receivers are polled and completed futures dropped.
C7_ParkedCompleteAfterClose ==
    \A r \in Receivers :
        [](closed /\ Waiting(r)
             => <>(rcv[r].terminated \/ rcv[r].phase = "dropped"))

\* C8: once a receive has returned Closed, no receive returns a message and
\* every receive that completes returns Closed.
C8_ClosedIsFinal ==
    [][(\E r \in Receivers : rcv[r].out = "Closed")
          => /\ received' = received
             /\ \A r \in Receivers :
                  rcv'[r].out # rcv[r].out => rcv'[r].out = "Closed"]_vars

C8_Witness ==
    /\ received # <<>>
    /\ \E a, b \in Receivers : a # b /\ rcv[a].out = "Closed" /\ rcv[b].out = "Closed"

\* ------------------------------------------------------------------------
\* Properties of the Web Worker carrier
\* ------------------------------------------------------------------------

\* C9: closing a carrier that is already closed completes without error and
\* leaves its closed flag and its queued items as they were.
C9_CloseIdempotent ==
    [][\A s \in Sides :
         (wk_state[s].closed /\ WkPollClose(s))
            => /\ wk_ret'.res = "Ok"
               /\ wk_state'[s].closed = wk_state[s].closed
               /\ wk_state'[s].incoming = wk_state[s].incoming]_vars

\* ------------------------------------------------------------------------
\* Properties of the TCP framer
\* ------------------------------------------------------------------------

\* every start_send of the peer of s was accepted, with an encoding that is
\* within the max_message_size of s as well
InLimit(s) ==
    \A i \in 1..Len(tcp_log[Other(s)]) :
        /\ tcp_log[Other(s)][i].res = "Ok"
        /\ Len(tcp_log[Other(s)][i].payload) <= tcp[s].max_message_size

\* what s is to yield for the frames its peer has sent: one item per frame
SentTo(s) ==
    [i \in 1..Len(tcp_log[Other(s)]) |->
        [payload |-> tcp_log[Other(s)][i].payload, res |-> "Item"]]

\* every byte the peer of s has framed has reached s, and s waits for more
AllRead(s) ==
    /\ tcp[Other(s)].send_buffer = <<>>
    /\ tcp_wire[s] = <<>>
    /\ tcp[s].receive_state.bytes_to_receive > 0

\* C10: for frames within the limit, however the byte stream is cut into
\* reads, the receive path yields the sent payloads in order, one per frame:
\* never anything else, and all of them once every byte has been read.
C10_FramerRoundTrip ==
    \A s \in Ends :
        InLimit(s) =>
            /\ IsPrefix(tcp_got[s], SentTo(s))
            /\ AllRead(s) => tcp_got[s] = SentTo(s)

C10_Witness ==
    \E s \in Ends :
        /\ InLimit(s)
        /\ Len(tcp_log[Other(s)]) = MaxFrames
        /\ tcp_got[s] = SentTo(s)
        /\ \E i, j \in 1..MaxFrames :
              /\ tcp_got[s][i].payload = <<>>
              /\ Len(tcp_got[s][j].payload) = tcp[s].max_message_size

\* every start_send of the peer of s was accepted: the bytes s reads are a
\* sequence of whole frames
WellFormed(s) ==
    \A i \in 1..Len(tcp_log[Other(s)]) : tcp_log[Other(s)][i].res = "Ok"

\* what s is to yield for the frames its peer has sent: the payload of a frame
\* within its limit, one MessageTooLarge for a frame beyond it
Expected(s) ==
    [i \in 1..Len(tcp_log[Other(s)]) |->
        IF Len(tcp_log[Other(s)][i].payload) <= tcp[s].max_message_size
        THEN [payload |-> tcp_log[Other(s)][i].payload, res |-> "Item"]
        ELSE [payload |-> <<>>, res |-> "MessageTooLarge"]]

\* C11: a frame whose length prefix is beyond max_message_size yields exactly
\* one MessageTooLarge, its payload bytes and no others are discarded, and the
\* frames after it are parsed at their boundary, however the stream is cut
\* into reads.
C11_OversizeRecovery ==
    \A s \in Ends :
        WellFormed(s) =>
            /\ IsPrefix(tcp_got[s], Expected(s))
            /\ AllRead(s) => tcp_got[s] = Expected(s)

C11_Witness ==
    \E s \in Ends :
        /\ WellFormed(s)
        /\ AllRead(s)
        /\ tcp_got[s] = Expected(s)
        /\ Len(tcp_got[s]) = MaxFrames
        /\ tcp_got[s][1].res = "MessageTooLarge"
        /\ tcp_got[s][MaxFrames].res = "Item"
        /\ Len(tcp_got[s][MaxFrames].payload) = tcp[s].max_message_size

\* no start_send of the peer of s failed in the codec: each was accepted or
\* refused as too large
NoneFailed(s) ==
    \A i \in 1..Len(tcp_log[Other(s)]) :
        tcp_log[Other(s)][i].res \in {"Ok", "MessageTooLarge"}

\* what s is to yield when its peer's refused messages leave no trace: one
\* item per accepted message
ExpectedAccepted(s) ==
    LET accepted == Framed(tcp_log[Other(s)])
    IN [i \in 1..Len(accepted) |->
           IF Len(accepted[i].payload) <= tcp[s].max_message_size
           THEN [payload |-> accepted[i].payload, res |-> "Item"]
           ELSE [payload |-> <<>>, res |-> "MessageTooLarge"]]

\* C12: a start_send that returns MessageTooLarge leaves send_buffer byte for
\* byte as it was, and the peer yields the messages accepted before and after
\* it and nothing for the refused one.
C12_RefusedSendLeavesNoTrace ==
    /\ [][\A s \in Ends :
            (/\ Len(tcp_log'[s]) = Len(tcp_log[s]) + 1
             /\ tcp_log'[s][Len(tcp_log'[s])].res = "MessageTooLarge")
                => tcp'[s].send_buffer = tcp[s].send_buffer]_vars
    /\ [](\A s \in Ends :
            NoneFailed(s) =>
                /\ IsPrefix(tcp_got[s], ExpectedAccepted(s))
                /\ AllRead(s) => tcp_got[s] = ExpectedAccepted(s))

C12_Witness ==
    \E s \in Ends :
        /\ Len(tcp_log[Other(s)]) = 3
        /\ tcp_log[Other(s)][1].res = "Ok"
        /\ tcp_log[Other(s)][2].res = "MessageTooLarge"
        /\ tcp_log[Other(s)][3].res = "Ok"
        /\ AllRead(s)
        /\ Len(tcp_got[s]) = 2
        /\ tcp_got[s] = ExpectedAccepted(s)
        /\ tcp_got[s][1] # tcp_got[s][2]

\* what s is to yield when only its peer's accepted messages reach it
ExpectedOk(s) ==
    LET accepted == SelectSeq(tcp_log[Other(s)], LAMBDA e : e.res = "Ok")
    IN [i \in 1..Len(accepted) |->
           IF Len(accepted[i].payload) <= tcp[s].max_message_size
           THEN [payload |-> accepted[i].payload, res |-> "Item"]
           ELSE [payload |-> <<>>, res |-> "MessageTooLarge"]]

\* C13: a start_send that fails in the codec leaves send_buffer as it was
\* (no placeholder, no partial payload), so the peer yields the accepted
\* messages and nothing else.
C13_FailedSendEnqueuesNothing ==
    /\ [][\A s \in Ends :
            (/\ Len(tcp_log'[s]) = Len(tcp_log[s]) + 1
             /\ tcp_log'[s][Len(tcp_log'[s])].res = "SerializationError")
                => tcp'[s].send_buffer = tcp[s].send_buffer]_vars
    /\ [](\A s \in Ends : IsPrefix(tcp_got[s], ExpectedOk(s)))

\* ------------------------------------------------------------------------
\* Properties of Numbered and LatestOnly
\* ------------------------------------------------------------------------

\* C14: the numbers attached to the messages sent are 0, 1, 2, ... in send
\* order, each the wrapping successor of the one before: after N::MAX comes 0.
C14_NumbersWrap ==
    /\ nm_log # <<>> => nm_log[1].number = 0
    /\ \A k \in 1..(Len(nm_log) - 1) :
          IF nm_log[k].number = NumberMax
          THEN nm_log[k + 1].number = 0
          ELSE nm_log[k + 1].number = nm_log[k].number + 1

C14_Witness ==
    \E k \in 1..(Len(nm_log) - 1) :
        nm_log[k].number = NumberMax /\ nm_log[k + 1].number = 0

\* C15: every item LatestOnly emits has a number strictly greater than that of
\* every item it emitted before.
C15_EmittedIncreasing ==
    \A i, j \in 1..Len(lo_emitted) :
        i < j => lo_emitted[i].number < lo_emitted[j].number

C15_Witness ==
    /\ Len(lo_emitted) >= 2
    /\ \E i \in 1..Len(lo_poll.drained) :
          lo_poll.drained[i].number <= lo_poll.before
    /\ \E i \in 1..Len(nm_log) :
          /\ nm_log[i] \notin nl_flight
          /\ \A j \in 1..Len(lo_emitted) : lo_emitted[j] # nm_log[i]

\* the items of the drain q that are newer than the number last
Newer(q, last) == {q[i] : i \in {k \in 1..Len(q) : last = NoNumber \/ q[k].number > last}}

\* C16: a poll that drains items until the inner stream returns Pending emits
\* the drained item with the greatest number among those newer than
\* last_number and sets last_number to it; with no newer item it returns
\* Pending and leaves last_number as it was.
C16_EmitsGreatestNewer ==
    (lo_poll.end = "Pending" /\ lo_poll.drained # <<>>) =>
        LET newer == Newer(lo_poll.drained, lo_poll.before)
        IN IF newer = {}
           THEN lo_poll.res = "Pending" /\ lo_last_number = lo_poll.before
           ELSE /\ lo_poll.res = "Item"
                /\ lo_poll.item \in newer
                /\ \A x \in newer : x.number <= lo_poll.item.number
                /\ lo_last_number = lo_poll.item.number

C16_Witness ==
    /\ lo_poll.end = "Pending"
    /\ Len(lo_poll.drained) = MaxDrain
    /\ lo_poll.res = "Item"
    /\ lo_poll.before # NoNumber
    /\ lo_poll.item = lo_poll.drained[2]
    /\ Cardinality(Newer(lo_poll.drained, lo_poll.before)) >= 2

\* ------------------------------------------------------------------------
\* Properties of the WebSocket carrier
\* ------------------------------------------------------------------------

\* what poll_next has taken from the inner stream
WsTaken == SubSeq(ws_arrived, 1, ws_read)

IsBinary(frame) == frame.kind = "Binary"

\* the receive stream has ended
WsEnded == ws_terminated \/ ws_last.res = "None"

\* the items are the binary frames taken so far, one each and in order
WsOnePerBinary ==
    LET binaries == SelectSeq(WsTaken, IsBinary)
    IN /\ Len(ws_yielded) >= Len(binaries)
       /\ SelectSeq(ws_yielded, LAMBDA y : IsBinary(y.frame)) =
             [i \in 1..Len(binaries) |->
                [frame |-> binaries[i], item |-> ws_decode(binaries[i].payload).item]]
       /\ \A i \in 1..Len(ws_yielded) :
             ws_yielded[i].frame.kind \notin {"Text", "Ping", "Pong"}

\* the i-th arrival is a binary frame that poll_next has not taken
WsBinaryWaits(i) ==
    /\ i <= Len(ws_arrived)
    /\ IsBinary(ws_arrived[i])
    /\ ws_read < i

\* C17: the receive stream yields one item for each inbound binary frame, in
\* arrival order, and none for text, ping and pong frames; and every binary
\* frame that has arrived is in the end taken and yielded to a receiver that
\* polls only when its waker fires, unless the stream ends first
C17_BinaryFramesYielded ==
    /\ []WsOnePerBinary
    /\ \A i \in 1..MaxArrive : WsBinaryWaits(i) ~> (ws_read >= i \/ WsEnded)

\* C18: on the transports, poll_next answers a close frame, a reset without
\* closing handshake and an AlreadyClosed or ConnectionClosed error with the
\* end of the stream and sets terminated, and every send after one of them
\* returns Closed
C18_ClosingTerminates ==
    ws_impl # "receiver" =>
        /\ ws_last.kind \in {"Close", "Reset", "AlreadyClosed", "ConnectionClosed"}
              => ws_last.res = "None" /\ ws_terminated
        /\ ws_send.after => ws_send.res = "Closed"

\* ------------------------------------------------------------------------
\* Properties of the facades
\* ------------------------------------------------------------------------

\* the results the Stream has taken from the receiver
StTaken == SubSeq(st_pushed, 1, Len(st_pushed) - Len(st_queue))

IsMessage(result) == result # OtherError

\* the i-th result is a message the Stream has not taken
StMessageWaits(i) ==
    /\ i <= Len(st_pushed)
    /\ IsMessage(st_pushed[i])
    /\ Len(st_pushed) - Len(st_queue) < i

\* C19: the Stream does not end on an Other error and ends exactly when
\* receive returns Closed; it yields the messages taken from the receiver, in
\* order; and a message received after an Other error, like every message, is
\* in the end yielded, and the end of the stream follows the close
C19_StreamSurvivesOther ==
    /\ [](st_last.got = "Other" => st_last.res # "None" /\ ~st_terminated)
    /\ [](st_last.res = "None" <=> st_last.got = "Closed")
    /\ [](st_terminated <=> st_last.got = "Closed")
    /\ [](st_out = SelectSeq(StTaken, IsMessage))
    /\ \A i \in 1..MaxResults :
          StMessageWaits(i) ~> (Len(st_pushed) - Len(st_queue) >= i)
    /\ st_closed ~> st_terminated

\* C20: the items whose send has completed, followed by the buffer, are the
\* items given to start_send in order, so that an item leaves the buffer only
\* when its send has completed and none is sent twice; and poll_flush returns
\* Ready(Ok) only when the buffer is empty
C20_SinkSendsEachOnce ==
    /\ sk_given = sk_done \o sk_buffer
    /\ sk_last.res = "ReadyOk" => sk_last.after = <<>>

\* ------------------------------------------------------------------------
\* Properties of the UDP carrier
\* ------------------------------------------------------------------------

\* the message of the id-th call
UdItem(id) == [id |-> id, body |-> ud_log[id].body]

\* the datagram is that of a message that was awaiting transmission: it goes
\* to the address of its call and, unless its send ended in an error, holds
\* the encoding of the message and nothing else
UdOfItsMessage(d) ==
    /\ d.for \in 1..Len(ud_log)
    /\ d.target = ud_log[d.for].target
    /\ d.for \notin ud_errors => d.payload = ud_encoding(UdItem(d.for))

\* the datagrams poll_flush has handed to the socket
UdFlushWire == SelectSeq(ud_wire, LAMBDA d : d.via = "flush")

\* the calls of one operation
UdCalls(op) == {id \in 1..Len(ud_log) : ud_log[id].op = op}

\* C21: the datagrams poll_flush transmits are those of the messages queued
\* by start_send, in the order of the queue, one datagram for each message
\* and holding exactly its encoding, empty or not; and poll_flush returns
\* Ready(Ok) only with send_queue empty and no encoded message pending, every
\* queued message then transmitted or reported as failed
C21_FlushSendsQueueInOrder ==
    /\ \A i \in 1..Len(UdFlushWire) :
          /\ UdOfItsMessage(UdFlushWire[i])
          /\ UdFlushWire[i].for \in UdCalls("start_send")
          /\ \A j \in 1..(i - 1) : UdFlushWire[j].for < UdFlushWire[i].for
    /\ ud_last.op = "poll_flush" /\ ud_last.res = "ReadyOk" =>
          /\ ud_last.idle
          /\ \A id \in UdCalls("start_send") :
                id \in ud_errors \/ \E i \in 1..Len(ud_wire) : ud_wire[i].for = id

\* C22: a send_to that returns Ok has handed the socket one datagram, for its
\* target and holding exactly the encoding of its message; and whatever the
\* sequence of send_to, start_send and flush calls, every datagram is that of
\* one message awaiting transmission and no message has two datagrams
C22_SendToOneDatagram ==
    /\ \A i \in 1..Len(ud_wire) :
          /\ UdOfItsMessage(ud_wire[i])
          /\ \A j \in 1..(i - 1) : ud_wire[j].for # ud_wire[i].for
    /\ ud_last.op = "send_to" /\ ud_last.res = "Ok" =>
          /\ ud_wire # <<>>
          /\ ud_wire[Len(ud_wire)] =
                Datagram(Len(ud_log), "send_to", ud_log[Len(ud_log)].target,
                         ud_encoding(UdItem(Len(ud_log))))

\* ------------------------------------------------------------------------
\* Properties of the open handshake
\* ------------------------------------------------------------------------

\* C23: the creation future of a side does not complete before that side has
\* been handed the peer's Open, and both creation futures complete
C23_HandshakeCompletes ==
    /\ [](\A s \in Sides : hs_phase[s] = "done" => hs_opens[s] >= 1)
    /\ <>(\A s \in Sides : hs_phase[s] = "done")

C23_Witness ==
    \A s \in Sides : hs_phase[s] = "done" /\ hs_opens[s] = 1

\* C24: no Message is queued on a side that has not been handed the peer's
\* Open, each side is handed at most one Open, and no listener reaches the
\* branch for an Open that finds open_notifier gone
C24_OpenBeforeMessages ==
    /\ ~hs_early
    /\ \A s \in Sides : hs_opens[s] <= 1
    /\ ~hs_panicked

C24_Witness ==
    \A s \in Sides : hs_incoming[s] # <<>> /\ hs_opens[s] = 1

\* ------------------------------------------------------------------------
\* Properties of the close protocol of the Web Worker carrier
\* ------------------------------------------------------------------------

\* the Close sentinels among the events posted to side s
WkCloses(ch, s) == Len(SelectSeq(ch[s], LAMBDA w : w.tag = "Close"))

C26_DuplexDelivery ==
    /\ [](\A s \in ChSides :
            /\ IsPrefix(ch_got[s], ch_sent[Opposite(s)])
            /\ \A i \in 1..Len(ch_got[s]) : ch_got[s][i].from # s
            /\ ch_fused[s] => ch_got[s] = ch_sent[Opposite(s)])
    /\ \A s \in ChSides :
          ~ch_sender[Opposite(s)] ~>
             (~ch_alive[s] \/ (ch_fused[s] /\ ch_got[s] = ch_sent[Opposite(s)]))

\* the right side has received the two messages the left side sent before it
\* was dropped, and has then seen the end of its stream
C26_Witness ==
    /\ ~ch_alive["left"]
    /\ Len(ch_sent["left"]) = MaxPosts
    /\ ch_got["right"] = ch_sent["left"]
    /\ ch_fused["right"]
    /\ ch_sent["right"] # <<>>

\* ------------------------------------------------------------------------
\* Properties of the in-memory carrier behind a mutex
\* ------------------------------------------------------------------------

\* a receive future has returned Closed
MxSawClosed == \E k \in 1..Len(mx_got) : mx_got[k] = 0

\* C27: a send's closed check and its enqueue are one step with respect to
\* close: no message is appended to the queue of a carrier whose closed flag is
\* already set, and no receive returns a message after a receive has returned
\* Closed.
C27_SendAtomicWithClose ==
    [][/\ Len(mx_queue') > Len(mx_queue) => ~mx_closed
       /\ Len(mx_got') > Len(mx_got) /\ MxSawClosed => mx_got'[Len(mx_got')] = 0]_vars

\* r is parked: its future is alive, registered its cell and got no wake-up
MxParked(r) ==
    /\ mx_rcv[r].phase = "live"
    /\ mx_rcv[r].cell
    /\ ~mx_rcv[r].terminated
    /\ ~mx_rcv[r].woken

\* the drop of r is over, and its cell was marked woken without the drop
\* having seen it
MxWokenInVain(r) ==
    /\ mx_rcv[r].phase = "dropped"
    /\ mx_rcv[r].woken
    /\ ~mx_rcv[r].seen

\* no thread is inside an operation that still has a wake_next to make
MxQuiet ==
    /\ mx_lock = MxUnlocked
    /\ mx_send.pc = "idle"
    /\ mx_close # "marked"
    /\ \A r \in MxReceivers : mx_rcv[r].phase \notin {"reading", "passing"}

\* C28: a wake-up aimed at a receiver that is being dropped is passed on, however
\* the drop and wake_next interleave: once every operation has returned, it is
\* never so that an item is queued, a live receiver is parked, and the only
\* receiver marked woken is a dropped one.
C28_DroppedWakePassedOn ==
    ~ /\ MxQuiet
      /\ mx_queue # <<>>
      /\ \E r \in MxReceivers : MxWokenInVain(r)
      /\ \E r \in MxReceivers : MxParked(r)
      /\ \A r \in MxReceivers : mx_rcv[r].woken => mx_rcv[r].phase = "dropped"

\* ------------------------------------------------------------------------
\* Properties of the waker registry
\* ------------------------------------------------------------------------

\* how many entries of the registry point at the waker cell of r
Entries(r) == Cardinality({k \in 1..Len(wakers) : wakers[k] = r})

\* C29: a parked receive future has at most one live entry in the registry,
\* also after it was polled again while pending; hence an accepted send that
\* finds a parked receiver marks a receiver that was not marked before, so that
\* k sends wake k distinct receivers.
C29_OneEntryPerReceiver ==
    /\ [](\A r \in Receivers : Waiting(r) => Entries(r) <= 1)
    /\ [][Len(sent') > Len(sent) /\ (\E r \in Receivers : Parked(r))
            => \E r \in Receivers : Parked(r) /\ rcv'[r].woken]_vars

\* ------------------------------------------------------------------------
\* Properties of the Stream facade over the in-memory carrier
\* ------------------------------------------------------------------------

\* the stream returned Pending, and the carrier is open and empty
FcParked == fc_last = "Pending" /\ ~closed /\ queue = <<>>

\* C30: a stream that returned Pending on an empty open carrier is woken by the
\* next accepted send and by a close, and a stream that is pending while a
\* message is queued or the carrier is closed goes on to yield the message or
\* the end of the stream.
C30_FacadeWokenAfterPending ==
    /\ [][FcParked /\ (Len(sent') > Len(sent) \/ closed') => FcScheduled']_vars
    /\ (fc_last = "Pending" /\ (queue # <<>> \/ closed))
          ~> (fc_last \in {"Some", "None"})

\* ------------------------------------------------------------------------
\* Properties of the calls on the TCP framer
\* ------------------------------------------------------------------------

\* the step is a call of op_ on end s
TlCalled(s, op_) == tl_last'.side = s /\ tl_last'.op = op_ /\ tcp_reset' = tcp_reset

\* C31: once a read of end s has returned zero bytes or ConnectionReset or
\* ConnectionAborted, the framer stays terminated; every later poll_next of s
\* returns the end of the stream and leaves the bytes in flight and the receive
\* state alone; every later start_send of s returns Closed and leaves
\* send_buffer alone.
C31_TerminalReadClosesBoth ==
    [][\A s \in Ends :
         tcp[s].terminated =>
            /\ tcp'[s].terminated
            /\ tcp'[s].receive_state = tcp[s].receive_state
            /\ Len(tcp_wire'[s]) >= Len(tcp_wire[s])
            /\ TlCalled(s, "poll_next") => tl_last'.res = "None" /\ tcp_got' = tcp_got
            /\ TlCalled(s, "start_send") =>
                  tl_last'.res = "Closed" /\ tcp'[s].send_buffer = tcp[s].send_buffer]_vars

C31_Witness ==
    \E s \in Ends :
       /\ tcp[s].terminated
       /\ tcp[s].send_buffer # <<>>
       /\ tl_last = TlReturn(s, "start_send", "Closed")
       /\ tcp[Other(s)].terminated
       /\ tcp_wire[Other(s)] # <<>>

\* C32: Closed is terminal in the send direction: once a poll_flush or a
\* poll_close of end s has returned Closed, every later start_send of s returns
\* Closed.
C32_ClosedSendTerminal ==
    [][\A s \in Ends :
         tl_closed[s] /\ TlCalled(s, "start_send") => tl_last'.res = "Closed"]_vars

\* C33: when poll_flush of end s returns Ready(Ok(())), send_buffer of s is
\* empty: all the bytes start_send has accepted are with the writer.
C33_FlushOkEmptiesBuffer ==
    [][\A s \in Ends :
         TlCalled(s, "poll_flush") /\ tl_last'.res = "Ok"
            => tcp'[s].send_buffer = <<>>]_vars

\* the bytes the next step of the receive loop takes from the buffer
NextStepNeeds(rs) == IF rs.receiving_size THEN 4 ELSE rs.message_size

RECURSIVE loop_tops(_, _, _)
\* the receive states one call of poll_next passes through at the top of its
\* loop, the socket handing over the bytes in flight in chunks of any size
loop_tops(rs, wire, max) ==
    {rs} \cup
    IF rs.bytes_to_receive <= 0
    THEN IF rs.receiving_size /\ Len(rs.buffer) >= 4 /\ get_u32(rs.buffer) <= max
         THEN loop_tops([rs EXCEPT !.buffer = advance(@, 4),
                                   !.message_size = get_u32(rs.buffer),
                                   !.bytes_to_receive = @ + get_u32(rs.buffer),
                                   !.receiving_size = FALSE],
                        wire, max)
         ELSE {}
    ELSE UNION {loop_tops(after_read(rs, SubSeq(wire, 1, n)), advance(wire, n), max)
                : n \in 1..Len(wire)}

\* C34: while the bytes an end reads are a sequence of whole frames, however
\* they are cut into reads: a receive state with bytes_to_receive <= 0 has
\* bytes_to_skip = 0 and holds in its buffer the bytes the next step consumes,
\* and no poll_next reads a length prefix or slices a payload beyond the
\* buffered bytes.
C34_SurplusIsBuffered ==
    \A s \in Ends :
        WellFormed(s) =>
            /\ ~Panicked(s)
            /\ \A rs \in loop_tops(tcp[s].receive_state, tcp_wire[s],
                                   tcp[s].max_message_size) :
                  rs.bytes_to_receive <= 0
                     => /\ rs.bytes_to_skip = 0
                        /\ Len(rs.buffer) >= NextStepNeeds(rs)

C34_Witness ==
    \E s \in Ends :
        /\ WellFormed(s)
        /\ tcp[s].receive_state.bytes_to_receive < 0
        /\ Len(tcp_got[s]) = 1
        /\ tcp_got[s][1].res = "MessageTooLarge"
        /\ Len(tcp[s].receive_state.buffer) > 4

\* ------------------------------------------------------------------------
\* More properties of Numbered and LatestOnly
\* ------------------------------------------------------------------------

\* C35: an inner start_send that fails leaves current_number as it was, so the
\* next message sent carries that number: the k-th message that was sent has the
\* number k - 1 (mod N::MAX + 1), whatever failed sends lie in between.
C35_FailedSendKeepsNumber ==
    /\ [][nm_failed' # nm_failed => nm_current' = nm_current /\ nm_log' = nm_log]_vars
    /\ [](/\ \A k \in 1..Len(nm_log) : nm_log[k].number = (k - 1) % (NumberMax + 1)
          /\ nm_current = Len(nm_log) % (NumberMax + 1))

C35_Witness ==
    /\ Len(nm_log) = MaxNumbered
    /\ \E k \in nm_failed : 0 < k /\ k < Len(nm_log)
    /\ NumberMax \in nm_failed

\* the last poll of LatestOnly took an item numbered n from its inner stream
LoDrained(n) == \E i \in 1..Len(lo_poll.drained) : lo_poll.drained[i].number = n

\* C36: the freshness test is the natural order on N, with no window around
\* the wrap: an item is accepted exactly when last_number is unset or its
\* number is greater, so once the item numbered N::MAX has been accepted every
\* later item is discarded, the one numbered 0 that follows the wrap included,
\* and poll_next emits nothing more.
C36_NoWrapWindow ==
    /\ [][\A n \in Numbers :
            LoDrained(n)' /\ lo_poll' # lo_poll /\ Len(lo_poll'.drained) = 1
               => (lo_last_number' = n /\ lo_last_number # n
                      <=> (lo_last_number = NoNumber \/ n > lo_last_number))]_vars
    /\ [][lo_last_number = NumberMax
             => lo_last_number' = NumberMax /\ lo_emitted' = lo_emitted]_vars

C36_Witness ==
    /\ lo_last_number = NumberMax
    /\ lo_poll.before = NumberMax
    /\ \E i \in 1..Len(lo_poll.drained) :
          lo_poll.drained[i].number = 0 /\ lo_poll.drained[i].wrapped = NumberMax + 2
    /\ lo_poll.res = "Pending"
    /\ lo_emitted[Len(lo_emitted)].number = NumberMax

\* C37: an item whose number a poll_next stores into last_number is emitted by
\* that poll_next: when a call has changed last_number, it returns the item
\* that carries the new last_number, also when the inner stream yields an
\* error or ends later in the same drain.
C37_StoredItemEmitted ==
    lo_last_number # lo_poll.before
       => lo_poll.res = "Item" /\ lo_poll.item.number = lo_last_number

\* ------------------------------------------------------------------------
\* More properties of the UDP carrier
\* ------------------------------------------------------------------------

\* C38: messages_to_send is always 0 or 1, and it is 1 exactly while an
\* encoded message awaits transmission in send_buffer; no decrement finds it
\* at 0, whatever the sequence of start_send, poll_flush, poll_close and
\* send_to calls
C38_MessagesToSendIsFlag ==
    /\ ud_to_send \in {0, 1}
    /\ ud_to_send = 1 <=> ud_encoded # 0
    /\ ~ud_panicked /\ ud_last.res # "Panic"

\* ------------------------------------------------------------------------
\* More properties of the Web Worker carrier
\* ------------------------------------------------------------------------

\* FusedStream::is_terminated of side s
wk_is_terminated(s) == wk_state[s].closed /\ wk_state[s].incoming = <<>>

\* the call that has just returned is a poll_next of side s that returned
\* end-of-stream
WkEnded(s) == wk_ret = [side |-> s, op |-> "poll_next", res |-> "None"]

\* C39: once poll_next of a side has returned end-of-stream, is_terminated
\* of that side stays true and a later poll_next of it returns end-of-stream,
\* whatever arrives from the peer
C39_EndOfStreamIsFinal ==
    [][\A s \in Sides :
          WkEnded(s) =>
             /\ wk_is_terminated(s)'
             /\ wk_ret'.side = s /\ wk_ret'.op = "poll_next" => wk_ret'.res = "None"]_vars

\* ------------------------------------------------------------------------
\* Properties of the locks of the in-memory carrier behind a mutex
\* ------------------------------------------------------------------------

\* the thread that holds the lock thread t is waiting for, 0 if t waits for
\* no lock or for a free one
LkBlocker(t) ==
    IF lk_pc[t] \in LkWantsState THEN lk_state_owner
    ELSE IF lk_pc[t] \in {"poll_cell", "drop_cell"} THEN lk_cell_owner[t]
    ELSE IF lk_pc[t] = "wake_cell" THEN lk_cell_owner[lk_target[t]]
    ELSE 0

\* thread t holds the lock of some waker cell
LkHoldsCell(t) == \E r \in MxReceivers : lk_cell_owner[r] = t

RECURSIVE LkBlockedBy(_, _)
\* the thread reached from t by going n times from a waiting thread to the
\* holder of the lock it waits for, 0 if the chain ends before
LkBlockedBy(t, n) ==
    IF t = 0 THEN 0
    ELSE IF n = 0 THEN t
    ELSE LkBlockedBy(LkBlocker(t), n - 1)

\* C40: a thread that asks for the state lock holds no lock, a thread that
\* asks for the lock of a waker cell holds at most the state lock, and every
\* chain of threads that wait for each other's locks ends at a thread that
\* waits for none: the mutex variant does not deadlock
C40_NoLockCycle ==
    \A t \in LkThreads :
       /\ lk_pc[t] \in LkWantsState => lk_state_owner # t /\ ~LkHoldsCell(t)
       /\ lk_pc[t] \in LkWantsCell => ~LkHoldsCell(t)
       /\ LkBlockedBy(t, Cardinality(LkThreads)) = 0

\* a wake_next that holds the state lock waits for the lock of a cell while
\* the drop of the cell's future holds it
C40_Witness ==
    \E t \in LkThreads, r \in MxReceivers :
       /\ lk_pc[t] = "wake_cell" /\ lk_state_owner = t /\ lk_target[t] = r
       /\ lk_pc[r] = "drop_reading" /\ lk_cell_owner[r] = r

====
